---- MODULE Spec2Model ----
(***************************************************************************)
(* A model of eenv, the local secret-lifecycle manager for .env files.     *)
(*                                                                         *)
(* Text (file names, ignore-file lines, config JSON, key strings) is a     *)
(* sequence of tokens; a token stands for the characters it spells and no  *)
(* token is a prefix of another, so prefix, suffix, trimming, splitting    *)
(* and byte order on token sequences agree with the same operations on the *)
(* strings they spell.  Environment files live in the repository root, so  *)
(* the path of one is its file name.  The filesystem is a function from    *)
(* the existing paths to their contents.                                   *)
(***************************************************************************)
EXTENDS Integers, Sequences, FiniteSets, TLC

\* fs:     the filesystem
\* git:    where git keeps its hooks, and the staged paths
\* before: the filesystem before the last operation
\* last:   the last operation, its inputs and what it returned
\* runs:   the number of operations so far
VARIABLES fs, git, before, last, runs

vars == <<fs, git, before, last, runs>>

(***************************************************************************)
(* Bounds of the model.                                                    *)
(***************************************************************************)
MaxFuel == 3
MaxRuns == 3
MaxCalls == 2
NumNonces == 1

(***************************************************************************)
(* Tokens in byte order of the strings they spell.                         *)
(***************************************************************************)
ByteOrder ==
    << "\n", " ", "\"", "#", "*", ",", ".", "/", "1", "2", ":", "=", "A", "B",
       "G1", "G2", "[", "\\", "]", "added", "bak", "by", "config", "eenv",
       "enc", "env", "example", "githooks", "gitignore", "json", "k1", "k2",
       "key", "n", "other", "pre-commit", "ps1", "sub", "tmp~", "validate",
       "x", "z", "{", "}" >>

Rank(tok) == CHOOSE i \in 1..Len(ByteOrder) : ByteOrder[i] = tok

StartsWith(s, pre) == Len(s) >= Len(pre) /\ SubSeq(s, 1, Len(pre)) = pre

EndsWith(s, suf) ==
    Len(s) >= Len(suf) /\ SubSeq(s, Len(s) - Len(suf) + 1, Len(s)) = suf

RECURSIVE SeqLess(_, _)
SeqLess(a, b) ==
    IF a = <<>> THEN b # <<>>
    ELSE IF b = <<>> THEN FALSE
    ELSE IF Head(a) = Head(b) THEN SeqLess(Tail(a), Tail(b))
    ELSE Rank(Head(a)) < Rank(Head(b))

RECURSIVE SortPaths(_)
SortPaths(S) ==
    IF S = {} THEN <<>>
    ELSE LET m == CHOOSE x \in S : \A y \in S \ {x} : SeqLess(x, y)
         IN  <<m>> \o SortPaths(S \ {m})

SeqToSet(s) == { s[i] : i \in 1..Len(s) }

\* F applied to x: the body of F names by its parameter a value it uses
\* more than once (a `let` of the source).
Bind(x, F(_)) == F(x)

(***************************************************************************)
(* std::path::Path::with_extension: the extension is what follows the last *)
(* dot of the file name, unless that dot is the name's first character.    *)
(***************************************************************************)
LastOf(path, tok) ==
    LET at == { i \in 1..Len(path) : path[i] = tok }
    IN  IF at = {} THEN 0 ELSE CHOOSE i \in at : \A j \in at : j <= i

LastDot(path) == LastOf(path, ".")

\* The path without the extension of its file name.
FileStem(path) ==
    IF LastDot(path) <= LastOf(path, "/") + 1 THEN path
    ELSE SubSeq(path, 1, LastDot(path) - 1)

WithExtension(name, ext) == FileStem(name) \o <<".">> \o ext

(***************************************************************************)
(* Well-known names.                                                       *)
(***************************************************************************)
ENV_PREFIX == <<".", "env">>
EXAMPLE_SUFFIX == <<".", "example">>
ENC_SUFFIX == <<".", "enc">>
TMP_EXT == <<"tmp~">>
EXAMPLE_TMP_EXT == <<"example", ".", "tmp~">>
VALIDATE_TMP_EXT == <<"validate", ".", "tmp~">>
GITIGNORE == <<".", "gitignore">>
CONFIG_NAME == <<"eenv", ".", "config", ".", "json">>

(***************************************************************************)
(* File contents.                                                          *)
(***************************************************************************)
Text(s) == [t |-> "text", s |-> s]
Bin(id, len) == [t |-> "bin", id |-> id, len |-> len]
Empty == Text(<<>>)

\* Lengths fixed by the artifact format.
MagicLen == 5
NonceLen == 24
TagLen == 16

\* The number of bytes of a content (a token of text counts as one).
RECURSIVE Size(_)
Size(c) ==
    CASE c.t = "text" -> Len(c.s)
      [] c.t = "bin"  -> c.len
      [] c.t = "part" -> Size(c.of) - 1
      [] c.t = "noperm" -> 0
      [] c.t = "blob" -> MagicLen + NonceLen + Size(c.ct.pt) + TagLen

\* What a crash in the middle of write_all leaves in the file being written:
\* a proper prefix of the bytes.
PartialOf(c) ==
    IF Size(c) < 2 THEN Empty
    ELSE IF c.t = "text" THEN Text(SubSeq(c.s, 1, Len(c.s) - 1))
    ELSE [t |-> "part", of |-> c]

(***************************************************************************)
(* The filesystem and the primitive steps a crash can separate.  A state   *)
(* st carries the filesystem, the number of primitive steps left before    *)
(* the process is killed (negative: it is not killed), whether it was      *)
(* killed, and the trace of its renames, removals and `git add`s.          *)
(***************************************************************************)
Exists(f, p) == p \in DOMAIN f

Put(f, p, c) == [q \in (DOMAIN f) \cup {p} |-> IF q = p THEN c ELSE f[q]]

Del(f, p) == [q \in (DOMAIN f) \ {p} |-> f[q]]

Unlimited == 0 - 1

Start(f, fuel) ==
    [fs |-> f, fuel |-> fuel, crashed |-> FALSE, trace |-> <<>>]

\* One primitive step: it happens unless the process has been killed.
Step(st, newfs, event) ==
    IF st.crashed THEN st
    ELSE IF st.fuel = 0 THEN [st EXCEPT !.crashed = TRUE]
    ELSE [st EXCEPT !.fs = newfs,
                    !.fuel = IF st.fuel > 0 THEN st.fuel - 1 ELSE st.fuel,
                    !.trace = st.trace \o event]

Event(op, path) == <<[op |-> op, path |-> path]>>

\* File::create: creates or truncates.
FileCreate(st, p) == Step(st, Put(st.fs, p, Empty), <<>>)

\* write_all then sync_all: the file passes through a partial state.
WriteAll(st, p, c) ==
    Bind(Step(st, Put(st.fs, p, PartialOf(c)), <<>>), LAMBDA mid :
        Step(mid, Put(mid.fs, p, c), <<>>))

\* fs::rename(from, to)
Rename(st, from, to) ==
    IF from = to THEN Step(st, st.fs, Event("write", to))
    ELSE Step(st, Put(Del(st.fs, from), to, st.fs[from]), Event("write", to))

\* fs::remove_file, its error ignored by every caller
RemoveFile(st, p) ==
    IF Exists(st.fs, p) THEN Step(st, Del(st.fs, p), Event("remove", p))
    ELSE st

\* git add -- paths (the staging collaborator)
git_add(st, paths) ==
    IF st.crashed THEN st
    ELSE [st EXCEPT !.trace =
            st.trace \o [i \in 1..Len(paths) |-> [op |-> "add", path |-> paths[i]]]]

\* An artifact whose target exists is examined: the target, and what it holds
\* at that moment, go on the trace.
Keep(st, p) ==
    IF st.crashed THEN st
    ELSE [st EXCEPT !.trace =
            st.trace \o <<[op |-> "keep", path |-> p, was |-> st.fs[p]]>>]

\* The temp-file, write, sync, rename pattern shared by the atomic writers.
WriteViaTemp(st, tmp, path, c) ==
    Rename(WriteAll(FileCreate(st, tmp), tmp, c), tmp, path)

write_bytes_atomic(st, path, bytes) ==
    WriteViaTemp(st, WithExtension(path, TMP_EXT), path, bytes)

write_string_atomic(st, path, contents) ==
    WriteViaTemp(st, WithExtension(path, TMP_EXT), path, Text(contents))

RECURSIVE Join(_, _)
Join(lines, sep) ==
    IF lines = <<>> THEN <<>>
    ELSE IF Len(lines) = 1 THEN lines[1]
    ELSE lines[1] \o sep \o Join(Tail(lines), sep)

\* lines.join("\n"), with a final newline pushed when missing
JoinLines(lines) ==
    LET buf == Join(lines, <<"\n">>)
    IN  IF EndsWith(buf, <<"\n">>) THEN buf ELSE buf \o <<"\n">>

write_lines_atomic(st, path, lines) ==
    WriteViaTemp(st, WithExtension(path, EXAMPLE_TMP_EXT), path,
                 Text(JoinLines(lines)))

(***************************************************************************)
(* Strings: trim, lines.                                                   *)
(***************************************************************************)
IsWs(tok) == tok \in {" ", "\n"}

RECURSIVE TrimStart(_)
TrimStart(s) == IF s # <<>> /\ IsWs(Head(s)) THEN TrimStart(Tail(s)) ELSE s

RECURSIVE TrimEnd(_)
TrimEnd(s) ==
    IF s # <<>> /\ IsWs(s[Len(s)]) THEN TrimEnd(SubSeq(s, 1, Len(s) - 1))
    ELSE s

Trim(s) == TrimEnd(TrimStart(s))

\* Index of the first occurrence of tok in s, or 0.
Find(s, tok) ==
    LET at == { i \in 1..Len(s) : s[i] = tok }
    IN  IF at = {} THEN 0 ELSE CHOOSE i \in at : \A j \in at : i <= j

\* str::lines: split at newlines, no final empty line.
RECURSIVE Lines(_)
Lines(s) ==
    IF s = <<>> THEN <<>>
    ELSE Bind(Find(s, "\n"), LAMBDA nl :
             IF nl = 0 THEN <<s>>
             ELSE <<SubSeq(s, 1, nl - 1)>> \o Lines(SubSeq(s, nl + 1, Len(s))))

(***************************************************************************)
(* serde_json, for the JSON the config file can hold: strings, numbers,    *)
(* arrays and objects.  A value is [k |-> kind, ...].                      *)
(***************************************************************************)
JStr(s) == [k |-> "str", s |-> s]
JNum(n) == [k |-> "num", n |-> n]
JArr(a) == [k |-> "arr", a |-> a]
JObj(f) == [k |-> "obj", f |-> f]

JFail == [ok |-> FALSE, v |-> JNum(<<>>), next |-> 0]
JOk(v, next) == [ok |-> TRUE, v |-> v, next |-> next]

IsDigit(tok) == tok \in {"1", "2"}

RECURSIVE SkipWs(_, _)
SkipWs(s, i) == IF i <= Len(s) /\ IsWs(s[i]) THEN SkipWs(s, i + 1) ELSE i

\* s[i] follows the opening quote; acc is what has been decoded.
RECURSIVE ReadString(_, _, _)
ReadString(s, i, acc) ==
    IF i > Len(s) THEN JFail
    ELSE IF s[i] = "\"" THEN JOk(JStr(acc), i + 1)
    ELSE IF s[i] = "\n" THEN JFail
    ELSE IF s[i] = "\\" THEN
        IF i + 1 > Len(s) THEN JFail
        ELSE IF s[i + 1] \in {"\"", "\\"}
             THEN ReadString(s, i + 2, Append(acc, s[i + 1]))
        ELSE IF s[i + 1] = "n" THEN ReadString(s, i + 2, Append(acc, "\n"))
        ELSE JFail
    ELSE ReadString(s, i + 1, Append(acc, s[i]))

RECURSIVE ReadNumber(_, _, _)
ReadNumber(s, i, acc) ==
    IF i <= Len(s) /\ IsDigit(s[i]) THEN ReadNumber(s, i + 1, Append(acc, s[i]))
    ELSE JOk(JNum(acc), i)

RECURSIVE ParseValue(_, _)
RECURSIVE ParseMembers(_, _, _, _)
RECURSIVE ParseElements(_, _, _, _)

ParseValue(s, i) ==
    Bind(SkipWs(s, i), LAMBDA j :
        IF j > Len(s) THEN JFail
        ELSE IF s[j] = "\"" THEN ReadString(s, j + 1, <<>>)
        ELSE IF s[j] = "{" THEN ParseMembers(s, SkipWs(s, j + 1), <<>>, TRUE)
        ELSE IF s[j] = "[" THEN ParseElements(s, SkipWs(s, j + 1), <<>>, TRUE)
        ELSE IF IsDigit(s[j]) THEN ReadNumber(s, j, <<>>)
        ELSE JFail)

\* i is past the whitespace; f holds the members read; first: none read yet.
ParseMembers(s, i, f, first) ==
    IF i > Len(s) THEN JFail
    ELSE IF s[i] = "}" /\ first THEN JOk(JObj(f), i + 1)
    ELSE IF s[i] # "\"" THEN JFail
    ELSE
      Bind(ReadString(s, i + 1, <<>>), LAMBDA name :
      Bind(IF name.ok THEN SkipWs(s, name.next) ELSE 0, LAMBDA colon :
      Bind(IF name.ok /\ colon <= Len(s) /\ s[colon] = ":"
           THEN ParseValue(s, colon + 1) ELSE JFail, LAMBDA val :
      Bind(IF val.ok THEN SkipWs(s, val.next) ELSE 0, LAMBDA after :
      Bind(IF val.ok THEN Put(f, name.v.s, val.v) ELSE f, LAMBDA f2 :
          IF ~val.ok \/ after > Len(s) THEN JFail
          ELSE IF s[after] = "}" THEN JOk(JObj(f2), after + 1)
          ELSE IF s[after] = ","
               THEN ParseMembers(s, SkipWs(s, after + 1), f2, FALSE)
          ELSE JFail)))))

ParseElements(s, i, a, first) ==
    IF i > Len(s) THEN JFail
    ELSE IF s[i] = "]" /\ first THEN JOk(JArr(a), i + 1)
    ELSE
      Bind(ParseValue(s, i), LAMBDA val :
      Bind(IF val.ok THEN SkipWs(s, val.next) ELSE 0, LAMBDA after :
      Bind(IF val.ok THEN Append(a, val.v) ELSE a, LAMBDA a2 :
          IF ~val.ok \/ after > Len(s) THEN JFail
          ELSE IF s[after] = "]" THEN JOk(JArr(a2), after + 1)
          ELSE IF s[after] = ","
               THEN ParseElements(s, SkipWs(s, after + 1), a2, FALSE)
          ELSE JFail)))

\* serde_json::from_str: one value, then only whitespace.
from_str(s) ==
    Bind(ParseValue(s, 1), LAMBDA r :
        IF r.ok /\ SkipWs(s, r.next) > Len(s) THEN r ELSE JFail)

RECURSIVE EscapeStr(_)
EscapeStr(s) ==
    IF s = <<>> THEN <<>>
    ELSE (CASE Head(s) = "\"" -> <<"\\", "\"">>
            [] Head(s) = "\\" -> <<"\\", "\\">>
            [] Head(s) = "\n" -> <<"\\", "n">>
            [] OTHER -> <<Head(s)>>) \o EscapeStr(Tail(s))

Quote(s) == <<"\"">> \o EscapeStr(s) \o <<"\"">>

RECURSIVE Indent(_)
Indent(d) == IF d = 0 THEN <<>> ELSE <<" ", " ">> \o Indent(d - 1)

\* serde_json::to_string_pretty; an object's members in key order.
RECURSIVE to_string_pretty_at(_, _)
RECURSIVE PrettyMembers(_, _, _)
RECURSIVE PrettyElements(_, _)

to_string_pretty_at(v, d) ==
    CASE v.k = "str" -> Quote(v.s)
      [] v.k = "num" -> v.n
      [] v.k = "arr" ->
           IF v.a = <<>> THEN <<"[", "]">>
           ELSE <<"[", "\n">> \o PrettyElements(v.a, d + 1)
                \o <<"\n">> \o Indent(d) \o <<"]">>
      [] v.k = "obj" ->
           IF DOMAIN v.f = {} THEN <<"{", "}">>
           ELSE <<"{", "\n">> \o PrettyMembers(v.f, SortPaths(DOMAIN v.f), d + 1)
                \o <<"\n">> \o Indent(d) \o <<"}">>

PrettyMembers(f, names, d) ==
    Indent(d) \o Quote(names[1]) \o <<":", " ">>
    \o to_string_pretty_at(f[names[1]], d)
    \o (IF Len(names) = 1 THEN <<>>
        ELSE <<",", "\n">> \o PrettyMembers(f, Tail(names), d))

PrettyElements(a, d) ==
    Indent(d) \o to_string_pretty_at(a[1], d)
    \o (IF Len(a) = 1 THEN <<>>
        ELSE <<",", "\n">> \o PrettyElements(Tail(a), d))

\* A printer that keeps only the key member of an object.
PrettyKeyOnly(v) ==
    IF v.k = "obj" /\ <<"key">> \in DOMAIN v.f
    THEN to_string_pretty_at([v EXCEPT !.f = (<<"key">> :> v.f[<<"key">>])], 0)
    ELSE to_string_pretty_at(v, 0)

to_string_pretty(v) == to_string_pretty_at(v, 0)

(***************************************************************************)
(* config.rs                                                               *)
(***************************************************************************)
\* blake3::hash of the key string: an injective digest.
Blake3(s) == [digest |-> s]

\* format!("{{\n  \"key\": \"{}\"\n}}\n", key): the key is pasted unescaped.
FormatKeyConfig(key) ==
    <<"{", "\n", " ", " ", "\"", "key", "\"", ":", " ", "\"">> \o key
    \o <<"\"", "\n", "}", "\n">>

\* A prompt that takes the line as typed, blank or not.
PromptUntrimmed(line) == [ok |-> TRUE, key |-> line]

\* A prompt that trims the line and takes what is left, even nothing.
PromptAcceptsEmpty(line) == [ok |-> TRUE, key |-> Trim(line)]

\* read_line then trim; an empty key is refused.
prompt_for_key(line) ==
    Bind(Trim(line), LAMBDA key :
        IF key = <<>> THEN [ok |-> FALSE, key |-> <<>>]
        ELSE [ok |-> TRUE, key |-> key])

\* fs::read_to_string: fails on a missing file and on bytes that are not UTF-8.
read_to_string(f, p) ==
    IF Exists(f, p) /\ f[p].t = "text" THEN [ok |-> TRUE, s |-> f[p].s]
    ELSE [ok |-> FALSE, s |-> <<>>]

HasKey(v) == v.k = "obj" /\ <<"key">> \in DOMAIN v.f

\* The value has a "key" member that is a non-empty string.
HasKeyString(v) ==
    HasKey(v) /\ v.f[<<"key">>].k = "str" /\ v.f[<<"key">>].s # <<>>

\* A validation that accepts every JSON object.
ValidateAnyObject(f) ==
    IF ~Exists(f, CONFIG_NAME) THEN "false"
    ELSE IF ~read_to_string(f, CONFIG_NAME).ok THEN "err"
    ELSE IF from_str(read_to_string(f, CONFIG_NAME).s).ok
            /\ from_str(read_to_string(f, CONFIG_NAME).s).v.k = "obj" THEN "true"
    ELSE "false"

\* "true", "false", or "err" when the file cannot be read as text
validate_eenv_config(f) ==
    IF ~Exists(f, CONFIG_NAME) THEN "false"
    ELSE Bind(read_to_string(f, CONFIG_NAME), LAMBDA text :
         Bind(from_str(text.s), LAMBDA r :
             IF ~text.ok THEN "err"
             ELSE IF r.ok /\ r.v.k = "obj"
                  THEN IF HasKeyString(r.v) THEN "true" ELSE "false"
             ELSE "false"))

\* backup_path_with_ts: the config path with extension bak.<seconds>
backup_path_with_ts(p, ts) == WithExtension(p, <<"bak", ".", ToString(ts)>>)

\* read_eenv_key: the derived key, or an error
read_eenv_key(f) ==
    Bind(read_to_string(f, CONFIG_NAME), LAMBDA text :
    Bind(from_str(text.s), LAMBDA r :
    Bind(r.ok /\ HasKey(r.v) /\ r.v.f[<<"key">>].k = "str", LAMBDA isStr :
    Bind(IF isStr THEN Trim(r.v.f[<<"key">>].s) ELSE <<>>, LAMBDA key_str :
        IF ~text.ok \/ ~r.ok \/ ~isStr \/ key_str = <<>>
        THEN [ok |-> FALSE, key |-> Blake3(<<>>)]
        ELSE [ok |-> TRUE, key |-> Blake3(key_str)]))))

write_eenv_config_with_key(st, key_str) ==
    write_string_atomic(st, CONFIG_NAME, FormatKeyConfig(key_str))

\* ensure_eenv_config.  gen: what generate_key returns; line: what the
\* operator types if prompted; ts: the clock, in seconds.
\* What ensure_eenv_config decides: the status, and the new config text.
EnsureDecision(f, gen, line) ==
    Bind(read_to_string(f, CONFIG_NAME), LAMBDA text :
    Bind(from_str(text.s), LAMBDA r :
    Bind(prompt_for_key(line), LAMBDA asked :
        IF ~Exists(f, CONFIG_NAME)
        THEN [status |-> "Created", new |-> FormatKeyConfig(gen)]
        ELSE IF ~text.ok THEN [status |-> "Err", new |-> <<>>]
        ELSE IF r.ok /\ r.v.k # "obj"
        THEN [status |-> "RewrittenFromInvalid", new |-> FormatKeyConfig(gen)]
        ELSE IF r.ok /\ ~HasKeyString(r.v)
        THEN [status |-> "FixedMissingKey",
              new |-> Bind(to_string_pretty(
                               JObj(Put(r.v.f, <<"key">>, JStr(gen)))),
                           LAMBDA pretty :
                               IF EndsWith(pretty, <<"\n">>) THEN pretty
                               ELSE pretty \o <<"\n">>)]
        ELSE IF r.ok THEN [status |-> "Valid", new |-> <<>>]
        ELSE IF ~asked.ok THEN [status |-> "Err", new |-> <<>>]
        ELSE [status |-> "RewrittenFromInvalid",
              new |-> FormatKeyConfig(asked.key)])))

\* ensure_eenv_config.  gen: what generate_key returns; line: what the
\* operator types if prompted; ts: the clock, in seconds.
ensure_eenv_config(st, gen, line, ts) ==
    Bind(EnsureDecision(st.fs, gen, line), LAMBDA d :
        IF d.status \in {"Err", "Valid"} THEN [st |-> st, status |-> d.status]
        ELSE [st |-> write_string_atomic(
                        IF d.status = "RewrittenFromInvalid"
                        THEN write_string_atomic(
                                 st, backup_path_with_ts(CONFIG_NAME, ts),
                                 read_to_string(st.fs, CONFIG_NAME).s)
                        ELSE st,
                        CONFIG_NAME, d.new),
              status |-> d.status])

(***************************************************************************)
(* gitignore.rs                                                            *)
(***************************************************************************)
pattern_core(line) ==
    LET hash == Find(line, "#")
    IN  Trim(IF hash = 0 THEN line ELSE SubSeq(line, 1, hash - 1))

banned_env_ignores ==
    { <<".", "env", ".", "example">>,
      <<".", "env", "*", ".", "example">>,
      <<".", "env", ".", "*", ".", "example">>,
      <<"*", ".", "env", ".", "example">>,
      <<".", "env", ".", "enc">>,
      <<".", "env", "*", ".", "enc">>,
      <<".", "env", ".", "*", ".", "enc">>,
      <<"*", ".", "env", ".", "enc">> }

RECURSIVE Replace(_, _, _)
Replace(s, tok, by) ==
    IF s = <<>> THEN <<>>
    ELSE (IF Head(s) = tok THEN by ELSE <<Head(s)>>) \o Replace(Tail(s), tok, by)

\* The path relative to the root, backslashes made slashes, spaces escaped.
to_gitignore_rel_pattern(name) ==
    LET s == Replace(name, "\\", <<"/">>)
    IN  IF s = <<>> THEN <<"/">> ELSE Replace(s, " ", <<"\\", " ">>)

IsBannedLine(line) ==
    pattern_core(line) # <<>> /\ pattern_core(line) \in banned_env_ignores

\* A filter that retains every line.
RetainEveryLine(line) == TRUE

NotBannedLine(line) == ~IsBannedLine(line)

\* A test that takes every name but a skeleton's for plaintext.
NotExampleName(name) == ~EndsWith(name, EXAMPLE_SUFFIX)

IsPlainName(name) ==
    ~EndsWith(name, EXAMPLE_SUFFIX) /\ ~EndsWith(name, ENC_SUFFIX)

ADDED_BY_EENV == <<"#", " ", "added", " ", "by", " ", "eenv">>

\* The .gitignore text as read, "" when the file is absent.
OriginalIgnore(f) ==
    IF Exists(f, GITIGNORE) THEN read_to_string(f, GITIGNORE)
    ELSE [ok |-> TRUE, s |-> <<>>]

\* A blank line is pushed before an added block unless the last line is blank.
WithBlockGap(lines) ==
    IF lines # <<>> /\ Trim(lines[Len(lines)]) # <<>>
    THEN Append(lines, <<>>) ELSE lines

\* A required set with a pattern for every file it is given.
RequireEveryFile(real_env_files) ==
    { to_gitignore_rel_pattern(real_env_files[i]) : i \in 1..Len(real_env_files) }
    \cup {CONFIG_NAME}

\* The patterns fix_gitignore_from_found requires: one per plaintext file,
\* and the config file.
RequiredPatterns(real_env_files) ==
    { to_gitignore_rel_pattern(real_env_files[i]) :
        i \in { j \in 1..Len(real_env_files) : IsPlainName(real_env_files[j]) } }
    \cup {CONFIG_NAME}

\* A reconciliation that puts the added block before the lines it keeps.
FixPrependingBlock(st, real_env_files) ==
    Bind(OriginalIgnore(st.fs), LAMBDA original :
    Bind(Lines(original.s), LAMBDA lines0 :
    Bind(SelectSeq(lines0, NotBannedLine), LAMBDA lines1 :
    Bind(SortPaths(RequiredPatterns(real_env_files)
                   \ { pattern_core(lines1[i]) : i \in 1..Len(lines1) }),
         LAMBDA missing :
    Bind(JoinLines(IF missing # <<>>
                   THEN <<ADDED_BY_EENV>> \o missing \o lines1
                   ELSE lines1), LAMBDA new_text :
        IF ~original.ok
        THEN [st |-> st, ok |-> FALSE, changed |-> FALSE,
              added |-> <<>>, removed |-> <<>>]
        ELSE [st |-> IF new_text # original.s
                     THEN WriteViaTemp(st, WithExtension(GITIGNORE, TMP_EXT),
                                       GITIGNORE, Text(new_text))
                     ELSE st,
              ok |-> TRUE, changed |-> new_text # original.s,
              added |-> missing,
              removed |-> SelectSeq(lines0, IsBannedLine)])))))

fix_gitignore_from_found(st, real_env_files) ==
    Bind(OriginalIgnore(st.fs), LAMBDA original :
    Bind(Lines(original.s), LAMBDA lines0 :
    Bind(SelectSeq(lines0, NotBannedLine), LAMBDA lines1 :
    Bind(SortPaths(RequiredPatterns(real_env_files)
                   \ { pattern_core(lines1[i]) : i \in 1..Len(lines1) }),
         LAMBDA missing :
    Bind(JoinLines(IF missing # <<>>
                   THEN WithBlockGap(lines1) \o <<ADDED_BY_EENV>> \o missing
                   ELSE lines1), LAMBDA new_text :
        IF ~original.ok
        THEN [st |-> st, ok |-> FALSE, changed |-> FALSE,
              added |-> <<>>, removed |-> <<>>]
        ELSE [st |-> IF new_text # original.s
                     THEN WriteViaTemp(st, WithExtension(GITIGNORE, TMP_EXT),
                                       GITIGNORE, Text(new_text))
                     ELSE st,
              ok |-> TRUE, changed |-> new_text # original.s,
              added |-> missing,
              removed |-> SelectSeq(lines0, IsBannedLine)])))))

\* config.rs: ensure_gitignore_has_config
ensure_gitignore_has_config(st) ==
    Bind(OriginalIgnore(st.fs), LAMBDA original :
    Bind(Lines(original.s), LAMBDA lines :
        IF ~original.ok THEN [st |-> st, ok |-> FALSE]
        ELSE IF \E i \in 1..Len(lines) : pattern_core(lines[i]) = CONFIG_NAME
        THEN [st |-> st, ok |-> TRUE]
        ELSE [st |-> WriteViaTemp(
                        st, WithExtension(GITIGNORE, TMP_EXT), GITIGNORE,
                        Text(JoinLines(WithBlockGap(lines)
                                       \o <<ADDED_BY_EENV, CONFIG_NAME>>))),
              ok |-> TRUE]))

(***************************************************************************)
(* envscan.rs                                                              *)
(***************************************************************************)
\* Path::file_name: what follows the last slash.
file_name(path) == SubSeq(path, LastOf(path, "/") + 1, Len(path))

\* is_env_file: a regular file whose file name starts with .env
is_env_file(name) == StartsWith(file_name(name), ENV_PREFIX)

\* The walk of the root: every regular file whose name starts with .env,
\* sorted, without duplicates.
find_env_files_recursive(f) == SortPaths({ p \in DOMAIN f : is_env_file(p) })

IsExampleName(name) == EndsWith(name, EXAMPLE_SUFFIX)

IsEncName(name) == ~EndsWith(name, EXAMPLE_SUFFIX) /\ EndsWith(name, ENC_SUFFIX)

split_env_files(files) ==
    Bind(SortPaths(SeqToSet(files)), LAMBDA sorted :
        [real |-> SelectSeq(sorted, IsPlainName),
         examples |-> SelectSeq(sorted, IsExampleName),
         encs |-> SelectSeq(sorted, IsEncName)])

compute_eenv_state(f) ==
    Bind(split_env_files(find_env_files_recursive(f)), LAMBDA split :
    Bind(validate_eenv_config(f), LAMBDA valid :
        [ok |-> valid # "err",
         enc |-> split.encs # <<>>,
         example |-> split.examples # <<>>,
         env |-> split.real # <<>>,
         eenvjson |-> valid = "true"]))

(***************************************************************************)
(* examples.rs                                                             *)
(***************************************************************************)
\* One line of a skeleton.
\* A transform that keeps every line as it is.
KeepLine(line) == line

SkeletonLine(line) ==
    Bind(Trim(line), LAMBDA trimmed :
    Bind(Find(line, "="), LAMBDA eq :
        IF trimmed = <<>> THEN <<>>
        ELSE IF Head(trimmed) = "#" THEN line
        ELSE IF eq # 0 THEN Trim(SubSeq(line, 1, eq - 1)) \o <<"=">>
        ELSE line))

\* File::open and BufRead::lines succeed on readable UTF-8 text only.
CanReadLines(f, p) == Exists(f, p) /\ f[p].t = "text"

\* The map from each file to its skeleton lines; an error on the first file
\* that cannot be opened or read ends the extraction.
extract_env_skeletons(f, files) ==
    IF \E i \in 1..Len(files) : ~CanReadLines(f, files[i])
    THEN [ok |-> FALSE, map |-> <<>>]
    ELSE [ok |-> TRUE,
          map |-> [p \in SeqToSet(files) |->
                     Bind(Lines(f[p].s), LAMBDA ls :
                         [i \in 1..Len(ls) |-> SkeletonLine(ls[i])])]]

\* A target that is always the path with the suffix appended.
ExamplePathAppended(path) == path \o EXAMPLE_SUFFIX

example_path_for(path) ==
    IF EndsWith(path, EXAMPLE_SUFFIX) THEN path ELSE path \o EXAMPLE_SUFFIX

\* order: the order in which the hash map yields its entries.
RECURSIVE ensure_env_examples_from_skeletons(_, _, _)
ensure_env_examples_from_skeletons(st, skeletons, order) ==
    IF order = <<>> THEN [st |-> st, results |-> <<>>]
    ELSE
      Bind(Head(order), LAMBDA real_path :
      Bind(example_path_for(real_path), LAMBDA target :
      Bind(ensure_env_examples_from_skeletons(
               IF real_path = target THEN st
               ELSE write_lines_atomic(st, target, skeletons[real_path]),
               skeletons, Tail(order)), LAMBDA rest :
          [st |-> rest.st,
           results |->
               <<[src |-> real_path, dst |-> target,
                  action |-> IF real_path = target THEN "SourceIsExample"
                             ELSE IF Exists(st.fs, target) THEN "Overwritten"
                             ELSE "Created"]>>
               \o rest.results])))

(***************************************************************************)
(* crypto.rs                                                               *)
(***************************************************************************)
MAGIC == <<"EENV1">>

\* An artifact path that replaces the extension of the name.
EncReplacesExtension(input) == WithExtension(input, <<"enc">>)

enc_output_path(input) == input \o ENC_SUFFIX

dec_output_path(input_enc) ==
    IF EndsWith(input_enc, ENC_SUFFIX)
    THEN SubSeq(input_enc, 1, Len(input_enc) - Len(ENC_SUFFIX))
    ELSE input_enc

\* XChaCha20-Poly1305 as an ideal AEAD: the sealed box opens only under the
\* key and nonce that sealed it.
Seal(key, nonce, pt) == [key |-> key, nonce |-> nonce, pt |-> pt, flip |-> 0]

\* The sealed box with byte i of its ciphertext-and-tag changed.
Flip(ct, i) == [ct EXCEPT !.flip = i]

\* An opening that authenticates nothing.
OpenAny(key, nonce, ct) == [ok |-> TRUE, pt |-> ct.pt]

Open(key, nonce, ct) ==
    IF ct.key = key /\ ct.nonce = nonce /\ ct.flip = 0
    THEN [ok |-> TRUE, pt |-> ct.pt]
    ELSE [ok |-> FALSE, pt |-> Empty]

\* The envelope MAGIC || nonce || ciphertext-and-tag.
Envelope(magic, nonce, ct) ==
    [t |-> "blob", magic |-> magic, nonce |-> nonce, ct |-> ct]

\* fs::read fails on a file that is missing or may not be read.
CanRead(f, p) == Exists(f, p) /\ f[p].t # "noperm"

\* An encryption that reports success and writes no artifact.
EncryptWithoutWriting(st, key, src, dst, nonce) == [st |-> st, ok |-> TRUE]

encrypt_file_to_enc(st, key, src, dst, nonce) ==
    IF ~CanRead(st.fs, src) THEN [st |-> st, ok |-> FALSE]
    ELSE [st |-> write_bytes_atomic(st, dst,
                    Envelope(MAGIC, nonce, Seal(key, nonce, st.fs[src]))),
          ok |-> TRUE]

\* A length test that also refuses the artifact of an empty plaintext.
TooShortOrEmpty(data) == Size(data) <= MagicLen + NonceLen + TagLen

\* The length test of decrypt_file_from_enc.
TooShort(data) == Size(data) < MagicLen + NonceLen + TagLen

decrypt_file_from_enc(st, key, src_enc, dst) ==
    Bind(st.fs[src_enc], LAMBDA data :
    Bind(Open(key, data.nonce, data.ct), LAMBDA opened :
        IF ~CanRead(st.fs, src_enc) THEN [st |-> st, ok |-> FALSE]
        ELSE IF TooShort(data) THEN [st |-> st, ok |-> FALSE]
        ELSE IF data.t # "blob" \/ data.magic # MAGIC
             THEN [st |-> st, ok |-> FALSE]
        ELSE IF ~opened.ok THEN [st |-> st, ok |-> FALSE]
        ELSE [st |-> write_bytes_atomic(st, dst, opened.pt), ok |-> TRUE]))

\* The loop of handle_enc_workflow.
RECURSIVE DecryptEach(_, _, _)
DecryptEach(st, key, encs) ==
    IF encs = <<>> THEN st
    ELSE Bind(dec_output_path(Head(encs)), LAMBDA dst :
             DecryptEach(
                 IF Exists(st.fs, dst) THEN Keep(st, dst)
                 ELSE decrypt_file_from_enc(st, key, Head(encs), dst).st,
                 key, Tail(encs)))

\* A decrypt-all that gives up after the first artifact.
HandleFirstOnly(st) ==
    IF ~read_eenv_key(st.fs).ok THEN [st |-> st, ok |-> FALSE]
    ELSE [st |-> DecryptEach(
                    st, read_eenv_key(st.fs).key,
                    SubSeq(split_env_files(find_env_files_recursive(st.fs)).encs,
                           1, 1)),
          ok |-> TRUE]

handle_enc_workflow(st) ==
    Bind(read_eenv_key(st.fs), LAMBDA key :
        IF ~key.ok THEN [st |-> st, ok |-> FALSE]
        ELSE [st |-> DecryptEach(
                        st, key.key,
                        split_env_files(find_env_files_recursive(st.fs)).encs),
              ok |-> TRUE])

\* The loop of encrypt_envs_to_enc: the first failure ends it.
RECURSIVE EncryptEach(_, _, _, _)
EncryptEach(st, key, real_envs, nonce) ==
    IF real_envs = <<>> THEN [st |-> st, ok |-> TRUE, produced |-> <<>>]
    ELSE
      Bind(Head(real_envs), LAMBDA src :
      Bind(IF IsPlainName(src)
           THEN encrypt_file_to_enc(st, key, src, enc_output_path(src), nonce)
           ELSE [st |-> st, ok |-> TRUE], LAMBDA one :
      Bind(IF one.ok THEN EncryptEach(one.st, key, Tail(real_envs), nonce)
           ELSE [st |-> st, ok |-> FALSE, produced |-> <<>>], LAMBDA rest :
          [st |-> rest.st, ok |-> rest.ok,
           produced |-> IF rest.ok /\ IsPlainName(src)
                        THEN <<enc_output_path(src)>> \o rest.produced
                        ELSE rest.produced])))

encrypt_envs_to_enc(st, real_envs, nonce) ==
    Bind(read_eenv_key(st.fs), LAMBDA key :
        IF ~key.ok THEN [st |-> st, ok |-> FALSE, produced |-> <<>>]
        ELSE EncryptEach(st, key.key, real_envs, nonce))

aead_from_key_str(key_str) ==
    IF Trim(key_str) = <<>> THEN [ok |-> FALSE, key |-> Blake3(<<>>)]
    ELSE [ok |-> TRUE, key |-> Blake3(key_str)]

\* A validation that takes every key for good.
ValidateKeyAny(st, key, encs) == [st |-> st, validated |-> TRUE]

\* The validation loop of bootstrap_key_and_decrypt: it stops at the first
\* artifact the key decrypts.
RECURSIVE ValidateKey(_, _, _)
ValidateKey(st, key, encs) ==
    IF encs = <<>> THEN [st |-> st, validated |-> FALSE]
    ELSE
      Bind(dec_output_path(Head(encs)), LAMBDA dst :
      Bind(IF Exists(st.fs, dst) THEN WithExtension(dst, VALIDATE_TMP_EXT)
           ELSE dst, LAMBDA out :
      Bind(decrypt_file_from_enc(
               IF Exists(st.fs, dst) THEN Keep(st, dst) ELSE st,
               key, Head(encs), out), LAMBDA tried :
          IF tried.ok
          THEN [st |-> IF Exists(st.fs, dst) THEN RemoveFile(tried.st, out)
                       ELSE tried.st,
                validated |-> TRUE]
          ELSE ValidateKey(RemoveFile(tried.st, out), key, Tail(encs)))))

\* What follows a validated key: it is persisted, the config is ignored,
\* and the artifacts are decrypted.
PersistAndDecrypt(st, key_str) ==
    Bind(ensure_gitignore_has_config(write_eenv_config_with_key(st, key_str)),
         LAMBDA ignored :
             IF ~ignored.ok THEN [st |-> ignored.st, ok |-> FALSE]
             ELSE handle_enc_workflow(ignored.st))

\* line: what the operator types at the prompt.
bootstrap_key_and_decrypt(st, line) ==
    Bind(prompt_for_key(line), LAMBDA asked :
    Bind(aead_from_key_str(asked.key), LAMBDA aead :
    Bind(split_env_files(find_env_files_recursive(st.fs)).encs, LAMBDA encs :
    Bind(ValidateKey(st, aead.key, encs), LAMBDA checked :
        IF ~asked.ok \/ ~aead.ok \/ encs = <<>> THEN [st |-> st, ok |-> FALSE]
        ELSE IF ~checked.validated THEN [st |-> checked.st, ok |-> FALSE]
        ELSE PersistAndDecrypt(checked.st, asked.key)))))

(***************************************************************************)
(* hooks.rs: ensure_gitignore_ignores_hooks.  hooks says where git keeps   *)
(* its hooks: "dotgit" (under .git), "outside" (not in the work tree) or   *)
(* "inrepo" (the directory .githooks of the work tree).                    *)
(***************************************************************************)
HOOKS_REL == <<".", "githooks", "/">>
HOOKS_NOTE == ADDED_BY_EENV \o <<" ", "(ignore generated git hooks)">>

HookPatterns ==
    << HOOKS_REL \o <<"pre-commit">>, HOOKS_REL \o <<"pre-commit", ".", "ps1">> >>

ensure_gitignore_ignores_hooks(st, hooks) ==
    Bind(OriginalIgnore(st.fs), LAMBDA original :
    Bind(Lines(original.s), LAMBDA lines :
    Bind(SelectSeq(HookPatterns,
                   LAMBDA pat : \A i \in 1..Len(lines) : pattern_core(lines[i]) # pat),
         LAMBDA to_add :
        IF hooks # "inrepo" \/ ~original.ok \/ to_add = <<>> THEN st
        ELSE write_string_atomic(
                 st, GITIGNORE,
                 JoinLines(WithBlockGap(lines) \o <<HOOKS_NOTE>> \o to_add)))))

(***************************************************************************)
(* init.rs: run.  inp holds what the run draws from outside: line (what    *)
(* the operator types if prompted), gen (what generate_key returns), ts    *)
(* (the clock), nonce (the random nonce), rev (whether the hash map of     *)
(* skeletons yields its entries in descending order).                      *)
(***************************************************************************)
Reverse(s) == [i \in 1..Len(s) |-> s[Len(s) + 1 - i]]

MapOrder(skeletons, rev) ==
    IF rev THEN Reverse(SortPaths(DOMAIN skeletons))
    ELSE SortPaths(DOMAIN skeletons)

\* The skeletons written for the files of real, in the map's order.
WriteSkeletons(st, real, rev) ==
    Bind(extract_env_skeletons(st.fs, real), LAMBDA skel :
        IF ~skel.ok THEN [st |-> st, ok |-> FALSE, results |-> <<>>]
        ELSE Bind(ensure_env_examples_from_skeletons(
                      st, skel.map, MapOrder(skel.map, rev)), LAMBDA made :
                 [st |-> made.st, ok |-> TRUE, results |-> made.results]))

\* The decrypt phase of run.
DecryptPhase(st, state, inp) ==
    IF ~state.enc THEN [st |-> st, ok |-> TRUE]
    ELSE IF state.eenvjson
         THEN [st |-> handle_enc_workflow(st).st, ok |-> TRUE]
    ELSE bootstrap_key_and_decrypt(st, inp.line)

\* The plaintext phase of run, over the files found after the decrypt phase.
PlaintextPhase(st, state, real, inp) ==
    Bind(IF ~state.example /\ real # <<>> THEN WriteSkeletons(st, real, inp.rev)
         ELSE [st |-> st, ok |-> TRUE], LAMBDA skel :
        IF ~skel.ok THEN [st |-> st, ok |-> FALSE]
        ELSE Bind(encrypt_envs_to_enc(
                      ensure_eenv_config(
                          fix_gitignore_from_found(skel.st, real).st,
                          inp.gen, inp.line, inp.ts).st,
                      real, inp.nonce), LAMBDA enc :
                 [st |-> enc.st, ok |-> enc.ok]))

run(st, hooks, inp) ==
    Bind(compute_eenv_state(st.fs), LAMBDA state :
    Bind(DecryptPhase(st, state, inp), LAMBDA dec :
    Bind(IF state.env
         THEN PlaintextPhase(
                  dec.st, state,
                  split_env_files(find_env_files_recursive(dec.st.fs)).real, inp)
         ELSE dec, LAMBDA plain :
        IF ~state.ok THEN [st |-> st, ok |-> FALSE]
        ELSE IF ~dec.ok THEN [st |-> dec.st, ok |-> FALSE]
        ELSE IF ~plain.ok THEN [st |-> plain.st, ok |-> FALSE]
        ELSE [st |-> ensure_gitignore_ignores_hooks(plain.st, hooks),
              ok |-> TRUE])))

(***************************************************************************)
(* precommit.rs: pre_commit.  staged: the paths git reports as staged, or  *)
(* gitOk = FALSE when `git diff` fails.                                    *)
(***************************************************************************)
\* An offender test that looks at the whole path, not at the base name.
IsOffenderPath(path) ==
    /\ StartsWith(path, ENV_PREFIX)
    /\ ~EndsWith(path, EXAMPLE_SUFFIX)
    /\ ~EndsWith(path, ENC_SUFFIX)

IsOffender(path) ==
    /\ StartsWith(file_name(path), ENV_PREFIX)
    /\ ~EndsWith(file_name(path), EXAMPLE_SUFFIX)
    /\ ~EndsWith(file_name(path), ENC_SUFFIX)

Written(result) == result.action \in {"Created", "Overwritten"}

\* The destinations of the skeletons written.
WrittenPaths(results) ==
    Bind(SelectSeq(results, Written), LAMBDA written :
        [i \in 1..Len(written) |-> written[i].dst])

\* The ignore-file reconciled and never staged.
FixWithoutStaging(st, real) == fix_gitignore_from_found(st, real).st

\* The ignore-file reconciled, and staged when it changed.
FixAndStageIgnore(st, real) ==
    Bind(fix_gitignore_from_found(st, real), LAMBDA gi :
        IF gi.ok /\ gi.changed THEN git_add(gi.st, <<GITIGNORE>>) ELSE gi.st)

\* The write-mode steps of pre_commit over the plaintext files real.
WriteMode(st, real, inp) ==
    Bind(WriteSkeletons(st, real, inp.rev), LAMBDA skel :
        IF ~skel.ok THEN [st |-> st, ok |-> FALSE]
        ELSE Bind(encrypt_envs_to_enc(
                      ensure_eenv_config(
                          FixAndStageIgnore(
                              git_add(skel.st, WrittenPaths(skel.results)), real),
                          inp.gen, inp.line, inp.ts).st,
                      real, inp.nonce), LAMBDA enc :
                 IF ~enc.ok THEN [st |-> enc.st, ok |-> FALSE]
                 ELSE [st |-> git_add(enc.st, enc.produced), ok |-> TRUE]))

\* A pre_commit that takes the write-mode steps whether asked to or not.
PreCommitAlwaysWrites(st, write, staged, gitOk, inp) ==
    Bind(split_env_files(find_env_files_recursive(st.fs)).real, LAMBDA real :
        IF ~gitOk THEN [st |-> st, ok |-> FALSE]
        ELSE IF SelectSeq(staged, IsOffender) # <<>> THEN [st |-> st, ok |-> FALSE]
        ELSE IF real = <<>> THEN [st |-> st, ok |-> TRUE]
        ELSE WriteMode(st, real, inp))

pre_commit(st, write, staged, gitOk, inp) ==
    Bind(split_env_files(find_env_files_recursive(st.fs)).real, LAMBDA real :
        IF ~gitOk THEN [st |-> st, ok |-> FALSE]
        ELSE IF SelectSeq(staged, IsOffender) # <<>> THEN [st |-> st, ok |-> FALSE]
        ELSE IF ~(write /\ real # <<>>) THEN [st |-> st, ok |-> TRUE]
        ELSE WriteMode(st, real, inp))

(***************************************************************************)
(* hooks.rs: install_git_hook.  File permissions are not modelled.         *)
(***************************************************************************)
HOOK_MARKER == "# managed-by-eenv"

HooksDir(hooks) ==
    CASE hooks = "inrepo" -> HOOKS_REL
      [] hooks = "dotgit" -> <<".git", "/", "hooks", "/">>
      [] OTHER -> <<"/", "outside", "/">>

sh_content == <<"#!/usr/bin/env bash", "\n", HOOK_MARKER, "\n", "exec", "\n">>
ps1_content == <<HOOK_MARKER, "\n", "&", "\n", "exit", "\n">>

\* fs::copy: the destination is created, then filled.
Copy(st, from, to) == WriteAll(FileCreate(st, to), to, st.fs[from])

write_if_needed(st, path, desired, force, ts) ==
    Bind(read_to_string(st.fs, path), LAMBDA existing :
    Bind(\E i \in 1..Len(existing.s) : existing.s[i] = HOOK_MARKER, LAMBDA ours :
        IF ~existing.ok THEN write_string_atomic(st, path, desired)
        ELSE IF ~ours /\ ~force THEN st
        ELSE IF existing.s # desired
        THEN write_string_atomic(
                 IF ~ours /\ force
                 THEN Copy(st, path, backup_path_with_ts(path, ts)) ELSE st,
                 path, desired)
        ELSE st))

install_git_hook(st, hooks, force, ts) ==
    IF hooks = "nogit" THEN [st |-> st, ok |-> FALSE]
    ELSE [st |-> ensure_gitignore_ignores_hooks(
                    write_if_needed(
                        write_if_needed(
                            st, HooksDir(hooks) \o <<"pre-commit">>,
                            sh_content, force, ts),
                        HooksDir(hooks) \o <<"pre-commit", ".", "ps1">>,
                        ps1_content, force, ts),
                    hooks),
          ok |-> TRUE]

(***************************************************************************)
(* cli.rs: dispatch.  mark is the length of the trace when the command's   *)
(* own function starts, after the hook has been looked after.              *)
(***************************************************************************)
dispatch_init(st, hooks, inp) ==
    Bind(install_git_hook(st, hooks, FALSE, inp.ts).st, LAMBDA hooked :
    Bind(run(hooked, hooks, inp), LAMBDA r :
        [st |-> r.st, ok |-> r.ok, mark |-> Len(hooked.trace),
         entry |-> hooked.fs]))

dispatch_pre_commit(st, hooks, write, staged, inp) ==
    Bind(install_git_hook(st, hooks, FALSE, inp.ts).st, LAMBDA hooked :
    Bind(pre_commit(hooked, write, staged, hooks # "nogit", inp), LAMBDA r :
        [st |-> r.st, ok |-> r.ok, exit |-> IF r.ok THEN 0 ELSE 1,
         mark |-> Len(hooked.trace), entry |-> hooked.fs]))

(***************************************************************************)
(* The state machine.  Every action is one call of an operation of eenv   *)
(* on the current filesystem; fuel is the number of primitive filesystem  *)
(* steps the process lives for.                                            *)
(***************************************************************************)
NoOp == [op |-> "none", streak |-> 0]

\* The state after one operation op with inputs inp and result out: Done for
\* a call of one function, Ran for a run of a command.
Record(op, inp, out, streak, limit) ==
    /\ runs < limit
    /\ fs' = out.st.fs
    /\ before' = fs
    /\ last' = [op |-> op, inp |-> inp, out |-> out, streak |-> streak]
    /\ runs' = runs + 1

Done(op, inp, out) == Record(op, inp, out, 0, MaxCalls)

Ran(op, inp, out, streak) == Record(op, inp, out, streak, MaxRuns)

Fuels == 0..MaxFuel \cup {Unlimited}

Nonces == 1..NumNonces

P1 == <<"A", "=", "1", "\n">>
P2 == <<" ", "B", " ", "=", "2", "\n", "#", " ", "x", "\n", "\n", "z">>

ENV == ENV_PREFIX
ENV_Z == ENV_PREFIX \o <<".", "z">>
ENV_TMP == ENV_PREFIX \o <<".", "tmp~">>
ENV_HASH == ENV_PREFIX \o <<"#", "x">>
ENV_VALIDATE_TMP == ENV_PREFIX \o <<".">> \o VALIDATE_TMP_EXT

K1 == <<"k1">>
K2 == <<"k2">>
KQuote == <<"k1", "\"">>

NoGit == [hooks |-> "dotgit", staged |-> {}]

(***************************************************************************)
(* The atomic writers, called on the paths eenv calls them on, and killed  *)
(* after any number of steps.                                              *)
(***************************************************************************)
StringWrites ==
    { <<CONFIG_NAME, FormatKeyConfig(K2)>>,
      <<GITIGNORE, JoinLines(<<ADDED_BY_EENV, CONFIG_NAME>>)>> }
LinesTargets == {example_path_for(ENV)}
BytesTargets == {ENV, WithExtension(ENV, VALIDATE_TMP_EXT)}

InitWriter ==
    /\ \E present \in SUBSET {CONFIG_NAME, WithExtension(ENV, VALIDATE_TMP_EXT)} :
         fs = [p \in present |-> Text(P1)]
    /\ git = NoGit
    /\ before = fs
    /\ last = NoOp
    /\ runs = 0

WriteString(path, contents, fuel) ==
    Done("write_string_atomic", [path |-> path, new |-> Text(contents)],
         [st |-> write_string_atomic(Start(fs, fuel), path, contents)])

WriteLines(path, lines, fuel) ==
    Done("write_lines_atomic", [path |-> path, new |-> Text(JoinLines(lines))],
         [st |-> write_lines_atomic(Start(fs, fuel), path, lines)])

WriteBytes(path, bytes, fuel) ==
    Done("write_bytes_atomic", [path |-> path, new |-> bytes],
         [st |-> write_bytes_atomic(Start(fs, fuel), path, bytes)])

\* The ignore-file written by fix_gitignore_from_found's own copy of the pattern.
FixIgnore(fuel) ==
    /\ Done("fix_gitignore_from_found",
            Bind(fix_gitignore_from_found(
                     Start(fs, Unlimited),
                     split_env_files(find_env_files_recursive(fs)).real),
                 LAMBDA whole :
                     [path |-> GITIGNORE, changed |-> whole.changed,
                      new |-> IF whole.changed THEN whole.st.fs[GITIGNORE]
                              ELSE Empty]),
            fix_gitignore_from_found(
                Start(fs, fuel),
                split_env_files(find_env_files_recursive(fs)).real))
    /\ last'.inp.changed

NextWriter ==
    \/ \E fuel \in Fuels : FixIgnore(fuel) /\ UNCHANGED git
    \/ \E fuel \in Fuels : \E w \in StringWrites :
          WriteString(w[1], w[2], fuel) /\ UNCHANGED git
    \/ \E fuel \in Fuels : \E path \in LinesTargets :
          WriteLines(path, <<<<"A", "=">>, <<>>>>, fuel) /\ UNCHANGED git
    \/ \E fuel \in Fuels : \E path \in BytesTargets : \E b \in {Empty, Text(P2)} :
          WriteBytes(path, b, fuel) /\ UNCHANGED git

SpecWriter == InitWriter /\ [][NextWriter]_vars

IsWriter(op) ==
    op \in {"write_string_atomic", "write_lines_atomic", "write_bytes_atomic",
            "fix_gitignore_from_found"}

OldOrNew(path, new) ==
    \/ Exists(fs, path) /\ fs[path] = new
    \/ Exists(fs, path) /\ Exists(before, path) /\ fs[path] = before[path]
    \/ ~Exists(fs, path) /\ ~Exists(before, path)

(***************************************************************************)
(* C5: a crash at any step of write_string_atomic, write_lines_atomic or   *)
(* write_bytes_atomic leaves the target with its complete previous content *)
(* (absent if it did not exist) or with the complete new content.          *)
(***************************************************************************)
C5_OldOrNew == IsWriter(last.op) => OldOrNew(last.inp.path, last.inp.new)

\* The same, for the targets whose name does not already end in .tmp~
C5_OldOrNewUnlessTemp ==
    IsWriter(last.op) /\ WithExtension(last.inp.path, TMP_EXT) # last.inp.path
        => OldOrNew(last.inp.path, last.inp.new)

(***************************************************************************)
(* One file encrypted and decrypted: encrypt_file_to_enc and               *)
(* decrypt_file_from_enc under keys derived by aead_from_key_str.          *)
(***************************************************************************)
Plaintexts == {Empty, Text(P1), Bin(1, 3)}

KeyStrings == {K1, KQuote, <<" ", "k1">>}

CryptoPaths == {ENV, enc_output_path(ENV), ENV_Z}

InitCrypto ==
    /\ \E p \in Plaintexts : fs = (ENV :> p)
    /\ git = NoGit
    /\ before = fs
    /\ last = NoOp
    /\ runs = 0

EncryptFile(k, src, dst, nonce) ==
    /\ aead_from_key_str(k).ok
    /\ Done("encrypt_file_to_enc",
            [k |-> k, src |-> src, dst |-> dst, nonce |-> nonce],
            encrypt_file_to_enc(Start(fs, Unlimited), aead_from_key_str(k).key,
                                src, dst, nonce))

DecryptFile(k, src_enc, dst) ==
    /\ aead_from_key_str(k).ok
    /\ Done("decrypt_file_from_enc", [k |-> k, src |-> src_enc, dst |-> dst],
            decrypt_file_from_enc(Start(fs, Unlimited), aead_from_key_str(k).key,
                                  src_enc, dst))

NextCrypto ==
    \/ \E k \in KeyStrings : \E src \in CryptoPaths : \E dst \in CryptoPaths :
          \E nonce \in Nonces : EncryptFile(k, src, dst, nonce) /\ UNCHANGED git
    \/ \E k \in KeyStrings : \E src \in CryptoPaths : \E dst \in CryptoPaths :
          DecryptFile(k, src, dst) /\ UNCHANGED git

SpecCrypto == InitCrypto /\ [][NextCrypto]_vars

\* The artifact a was produced by encrypt_file_to_enc from plaintext p under
\* the key derived from the key string k.
EncryptedFrom(a, k, p) ==
    \E nonce \in Nonces :
        a = Envelope(MAGIC, nonce, Seal(aead_from_key_str(k).key, nonce, p))

(***************************************************************************)
(* C10: for every plaintext p and every non-empty key string k, decrypting *)
(* with the key derived from k the artifact that encrypt_file_to_enc made  *)
(* of p under the key derived from k succeeds and writes exactly p to the  *)
(* destination.                                                            *)
(***************************************************************************)
C10_RoundTrip ==
    last.op = "decrypt_file_from_enc" /\ Exists(before, last.inp.src) =>
        \A p \in Plaintexts :
            EncryptedFrom(before[last.inp.src], last.inp.k, p) =>
                /\ last.out.ok
                /\ Exists(fs, last.inp.dst)
                /\ fs[last.inp.dst] = p

\* An artifact of the empty plaintext, made by the previous operation's
\* encryption, has been decrypted under the same key string.
C10_RoundTripDone ==
    /\ last.op = "decrypt_file_from_enc"
    /\ Exists(before, last.inp.src)
    /\ EncryptedFrom(before[last.inp.src], last.inp.k, Empty)
    /\ last.inp.dst # last.inp.src
    /\ last.out.ok
    /\ fs[last.inp.dst] = Empty

(***************************************************************************)
(* The pre-commit command on a work tree with staged paths.                *)
(***************************************************************************)
Inputs ==
    [line : {K1, KQuote, <<" ">>}, gen : {<<"G1">>}, ts : {1}, nonce : Nonces,
     rev : BOOLEAN]

BannedIgnore ==
    Text(<<"x", "\n">> \o ENV_PREFIX \o EXAMPLE_SUFFIX \o <<" ", "#", "x", "\n">>
         \o ENV_PREFIX \o <<"*">> \o ENC_SUFFIX)

StagedPool ==
    {ENV, example_path_for(ENV), enc_output_path(ENV),
     <<"sub", "/">> \o ENV_Z, <<"other">>}

\* The filesystems with the files of present, the optional ones given by
\* config and ignore.
Tree(present, config, ignore) ==
    [p \in present |-> Text(IF p = ENV THEN P1 ELSE P2)]
    @@ (IF config = <<>> THEN <<>> ELSE (CONFIG_NAME :> Text(config)))
    @@ (IF ignore THEN (GITIGNORE :> BannedIgnore) ELSE <<>>)

InitPreCommit ==
    /\ \E present \in SUBSET {ENV, ENV_Z} :
       \E config \in {<<>>, FormatKeyConfig(K1)} :
       \E ignore \in BOOLEAN :
          fs = Tree(present, config, ignore)
    /\ \E hooks \in {"dotgit", "inrepo", "nogit"} :
       \E staged \in SUBSET StagedPool :
          /\ Cardinality(staged) <= 2
          /\ git = [hooks |-> hooks, staged |-> staged]
    /\ before = fs
    /\ last = NoOp
    /\ runs = 0

\* The paths a trace hands to `git add`.
Added(trace) ==
    { trace[i].path : i \in { j \in 1..Len(trace) : trace[j].op = "add" } }

PreCommit(write, inp) ==
    /\ Ran("pre_commit", [write |-> write, staged |-> git.staged],
           dispatch_pre_commit(Start(fs, Unlimited), git.hooks, write,
                               SortPaths(git.staged), inp), 0)
    /\ git' = [git EXCEPT !.staged = @ \cup Added(last'.out.st.trace)]

NextPreCommit == \E write \in BOOLEAN : \E inp \in Inputs : PreCommit(write, inp)

SpecPreCommit == InitPreCommit /\ [][NextPreCommit]_vars

\* A base name of a plaintext environment file.
PlaintextBase(path) ==
    LET base == SubSeq(path, LastOf(path, "/") + 1, Len(path))
    IN  /\ Len(base) >= 2 /\ base[1] = "." /\ base[2] = "env"
        /\ base[Len(base)] \notin {"example", "enc"}

(***************************************************************************)
(* C2: when a staged path has a base name that begins with .env and ends   *)
(* with neither .example nor .enc, pre_commit returns an error and the     *)
(* process exits non-zero, in write and in non-write mode, and pre_commit  *)
(* has by then written, removed and staged nothing.                        *)
(***************************************************************************)
C2_RejectsStagedPlaintext ==
    last.op = "pre_commit" /\ (\E p \in last.inp.staged : PlaintextBase(p)) =>
        /\ ~last.out.ok
        /\ last.out.exit = 1
        /\ Len(last.out.st.trace) = last.out.mark
        /\ fs = last.out.entry
        /\ git.staged = last.inp.staged

\* A write-mode run over a tree with plaintext files, refused for a staged
\* plaintext file in a subdirectory.
C2_Refused ==
    /\ last.op = "pre_commit"
    /\ last.inp.write
    /\ <<"sub", "/">> \o ENV_Z \in last.inp.staged
    /\ Exists(before, ENV)
    /\ last.out.exit = 1
    /\ git.hooks # "nogit"

(***************************************************************************)
(* The key and config operations, called as init calls them:               *)
(* bootstrap_key_and_decrypt when there are artifacts and no valid config, *)
(* handle_enc_workflow when there are artifacts and a valid config,        *)
(* ensure_eenv_config when there are plaintext files.                      *)
(***************************************************************************)
\* The artifact of plaintext pt under the key string k.
Artifact(k, pt) == Envelope(MAGIC, 1, Seal(Blake3(k), 1, pt))

Unparsable == <<"{", "x">>
NotAnObject == <<"[", "1", "]">>
NoKeyObject == <<"{", "\"", "other", "\"", ":", " ", "1", "}">>

ConfigTexts == {<<>>, FormatKeyConfig(K1), Unparsable, NotAnObject, NoKeyObject}

\* The files of present as plaintext, the artifacts of arts sealed under seal.
KeyTree(present, arts, seal, config, ignore) ==
    [p \in { enc_output_path(a) : a \in arts } |->
        Artifact(seal, Text(IF dec_output_path(p) = ENV THEN P1 ELSE P2))]
    @@ Tree(present, config, ignore)

InitKey ==
    /\ \E present \in SUBSET {ENV, ENV_TMP, ENV_VALIDATE_TMP} :
       \E arts \in SUBSET {ENV, ENV_Z, ENV_TMP} :
       \E seal \in {K1, KQuote} :
       \E config \in ConfigTexts :
       \E ignore \in BOOLEAN :
          /\ arts # {}
          /\ fs = KeyTree(present, arts, seal, config, ignore)
    /\ git = NoGit
    /\ before = fs
    /\ last = NoOp
    /\ runs = 0

Bootstrap(line) ==
    /\ compute_eenv_state(fs).enc
    /\ ~compute_eenv_state(fs).eenvjson
    /\ Done("bootstrap_key_and_decrypt", [line |-> line],
            bootstrap_key_and_decrypt(Start(fs, Unlimited), line))

HandleEnc ==
    /\ compute_eenv_state(fs).enc
    /\ compute_eenv_state(fs).eenvjson
    /\ Done("handle_enc_workflow", [line |-> <<>>],
            handle_enc_workflow(Start(fs, Unlimited)))

Ensure(inp) ==
    /\ compute_eenv_state(fs).env
    /\ Done("ensure_eenv_config", inp,
            ensure_eenv_config(Start(fs, Unlimited), inp.gen, inp.line, inp.ts))

NextKey ==
    \/ \E line \in {K1, KQuote, <<" ">>} : Bootstrap(line) /\ UNCHANGED git
    \/ HandleEnc /\ UNCHANGED git
    \/ \E inp \in { i \in Inputs : ~i.rev /\ i.nonce = 1 } :
          Ensure(inp) /\ UNCHANGED git

SpecKey == InitKey /\ [][NextKey]_vars

IsDecrypt(op) == op \in {"handle_enc_workflow", "bootstrap_key_and_decrypt"}

\* The key derived from what the operator typed.
TypedKey(line) == aead_from_key_str(prompt_for_key(line).key).key

\* The artifacts of f that the key typed as line decrypts.
Decrypted(f, line) ==
    { p \in DOMAIN f :
        /\ is_env_file(p) /\ IsEncName(p)
        /\ prompt_for_key(line).ok
        /\ decrypt_file_from_enc(Start(f, Unlimited), TypedKey(line), p,
                                 dec_output_path(p)).ok }

IsPlaintext(p) == is_env_file(p) /\ IsPlainName(p)

IsValidateTemp(p) == EndsWith(p, <<".">> \o VALIDATE_TMP_EXT)

\* The file p is in g what it was in f: absent in both, or the same bytes.
Same(f, g, p) ==
    /\ Exists(f, p) <=> Exists(g, p)
    /\ Exists(f, p) => f[p] = g[p]

(***************************************************************************)
(* C1: in handle_enc_workflow and bootstrap_key_and_decrypt, every target  *)
(* X that exists when its artifact X.enc is examined holds afterwards the  *)
(* content it held when examined.                                          *)
(***************************************************************************)
C1_ExistingTargetKept ==
    IsDecrypt(last.op) =>
        \A i \in 1..Len(last.out.st.trace) :
            last.out.st.trace[i].op = "keep" =>
                /\ Exists(fs, last.out.st.trace[i].path)
                /\ fs[last.out.st.trace[i].path] = last.out.st.trace[i].was

C7_KeyPersisted ==
    last.op = "bootstrap_key_and_decrypt" /\ Decrypted(before, last.inp.line) # {} =>
        /\ validate_eenv_config(fs) = "true"
        /\ read_eenv_key(fs).ok
        /\ read_eenv_key(fs).key = TypedKey(last.inp.line)
        /\ \E i \in 1..Len(Lines(OriginalIgnore(fs).s)) :
              pattern_core(Lines(OriginalIgnore(fs).s)[i]) = CONFIG_NAME

IsFreshConfig(c) ==
    \E k \in {<<"G1">>, K1, K2, KQuote} : c = Text(FormatKeyConfig(k))

\* The trace writes, before its first write of the config file, a file
\* that holds c.
BackedUp(trace, c) ==
    \E i \in 1..Len(trace) : \E j \in 1..Len(trace) :
        /\ i < j
        /\ trace[i].op = "write" /\ trace[i].path # CONFIG_NAME
        /\ trace[j].op = "write" /\ trace[j].path = CONFIG_NAME
        /\ \A h \in 1..(j - 1) : trace[h].path # CONFIG_NAME \/ trace[h].op # "write"
        /\ Exists(fs, trace[i].path) /\ fs[trace[i].path] = c

(***************************************************************************)
(* C8: whenever ensure_eenv_config or bootstrap_key_and_decrypt replaces   *)
(* an existing config file by a fresh {key} config, a backup file holding  *)
(* the original content was written before the config file was written.    *)
(***************************************************************************)
C8_BackupBeforeRewrite ==
    /\ last.op \in {"ensure_eenv_config", "bootstrap_key_and_decrypt"}
    /\ Exists(before, CONFIG_NAME) /\ Exists(fs, CONFIG_NAME)
    /\ fs[CONFIG_NAME] # before[CONFIG_NAME]
    /\ IsFreshConfig(fs[CONFIG_NAME])
    => BackedUp(last.out.st.trace, before[CONFIG_NAME])

(***************************************************************************)
(* The bulk operations of init over a tree whose files may be unreadable   *)
(* and whose artifacts may be garbage: the skeletons of init.rs, the       *)
(* encryption of every plaintext file, the decryption of every artifact.   *)
(***************************************************************************)
Unreadable == [t |-> "noperm"]

ENV_N == ENV_PREFIX \o <<".", "n">>
ENV_X == ENV_PREFIX \o <<".", "x">>

\* What an artifact path can hold: nothing, an artifact under the config's
\* key, an artifact under another key, or text that is no artifact.
ArtifactKinds == {"none", "good", "foreign", "garbage"}

ArtifactAt(path, kind) ==
    CASE kind = "none" -> <<>>
      [] kind = "good" -> (path :> Artifact(K1, Text(P2)))
      [] kind = "foreign" -> (path :> Artifact(K2, Text(P2)))
      [] OTHER -> (path :> Text(P1))

InitBulk ==
    /\ \E c1 \in {Text(P1), Bin(1, 3), Unreadable} :
       \E c2 \in {Text(P2), Bin(1, 3), Unreadable} :
       \E a \in ArtifactKinds : \E b \in ArtifactKinds :
          fs = (ENV :> c1) @@ (ENV_Z :> c2)
               @@ ArtifactAt(enc_output_path(ENV_N), a)
               @@ ArtifactAt(enc_output_path(ENV_X), b)
               @@ (CONFIG_NAME :> Text(FormatKeyConfig(K1)))
    /\ git = NoGit
    /\ before = fs
    /\ last = NoOp
    /\ runs = 0

Skeletons(rev) ==
    Done("skeletons", [rev |-> rev],
         WriteSkeletons(Start(fs, Unlimited),
                        split_env_files(find_env_files_recursive(fs)).real, rev))

EncryptAll(nonce) ==
    Done("encrypt_envs_to_enc", [nonce |-> nonce],
         encrypt_envs_to_enc(Start(fs, Unlimited),
                             split_env_files(find_env_files_recursive(fs)).real,
                             nonce))

DecryptAll ==
    Done("handle_enc_workflow", [line |-> <<>>],
         handle_enc_workflow(Start(fs, Unlimited)))

NextBulk ==
    \/ \E rev \in BOOLEAN : Skeletons(rev) /\ UNCHANGED git
    \/ \E nonce \in Nonces : EncryptAll(nonce) /\ UNCHANGED git
    \/ DecryptAll /\ UNCHANGED git

SpecBulk == InitBulk /\ [][NextBulk]_vars

\* Every plaintext file that can be read as text has its skeleton.
SkeletonsMade ==
    \A p \in DOMAIN before :
        IsPlaintext(p) /\ CanReadLines(before, p) =>
            Exists(fs, example_path_for(p))

\* Every plaintext file that can be read has its artifact.
ArtifactsMade ==
    \A p \in DOMAIN before :
        IsPlaintext(p) /\ CanRead(before, p) =>
            /\ Exists(fs, enc_output_path(p))
            /\ fs[enc_output_path(p)] =
                   Envelope(MAGIC, last.inp.nonce,
                            Seal(read_eenv_key(before).key, last.inp.nonce,
                                 before[p]))

\* Every artifact the config's key opens, and whose target was absent, has
\* been decrypted.
TargetsMade ==
    \A p \in DOMAIN before :
        /\ is_env_file(p) /\ IsEncName(p)
        /\ ~Exists(before, dec_output_path(p))
        /\ decrypt_file_from_enc(Start(before, Unlimited),
                                 read_eenv_key(before).key, p,
                                 dec_output_path(p)).ok
        => Exists(fs, dec_output_path(p))

(***************************************************************************)
(* C9: in bulk skeleton generation, bulk encryption and bulk decryption,   *)
(* a failure on one file does not stop the loop: every other file that can *)
(* be processed has been processed when the operation returns.             *)
(***************************************************************************)
C9_FailuresIsolated ==
    /\ last.op = "skeletons" => SkeletonsMade
    /\ last.op = "encrypt_envs_to_enc" => ArtifactsMade
    /\ last.op = "handle_enc_workflow" => TargetsMade

(***************************************************************************)
(* The init command, run again and again, or killed after some steps.      *)
(***************************************************************************)
\* The numbers of filesystem steps after which a run is killed.
KillPoints == {MaxFuel, 4 * MaxFuel, 8 * MaxFuel}

InitInit ==
    /\ \E present \in SUBSET {ENV, ENV_HASH} :
       \E arts \in SUBSET {ENV} :
       \E config \in {<<>>, FormatKeyConfig(K1), Unparsable} :
       \E ignore \in BOOLEAN :
          fs = KeyTree(present, arts, K1, config, ignore)
    /\ \E hooks \in {"dotgit", "inrepo"} : git = [hooks |-> hooks, staged |-> {}]
    /\ before = fs
    /\ last = NoOp
    /\ runs = 0

\* A run of init to its end; streak counts the successful runs in a row.
InitRun(inp) ==
    /\ Ran("init", inp, dispatch_init(Start(fs, Unlimited), git.hooks, inp),
           last.streak + 1)
    /\ last'.out.ok

InitFailed(inp) ==
    /\ Ran("init", inp, dispatch_init(Start(fs, Unlimited), git.hooks, inp), 0)
    /\ ~last'.out.ok

InitKilled(fuel) ==
    /\ Ran("init", [line |-> K1, gen |-> <<"G1">>, ts |-> 1, nonce |-> 1,
                    rev |-> FALSE],
           dispatch_init(Start(fs, fuel), git.hooks,
                         [line |-> K1, gen |-> <<"G1">>, ts |-> 1, nonce |-> 1,
                          rev |-> FALSE]), 0)
    /\ last'.out.st.crashed

NextInit ==
    \/ \E inp \in Inputs : InitRun(inp) /\ UNCHANGED git
    \/ \E inp \in Inputs : InitFailed(inp) /\ UNCHANGED git
    \/ \E fuel \in KillPoints : InitKilled(fuel) /\ UNCHANGED git

SpecInit == InitInit /\ [][NextInit]_vars

\* The files init manages other than artifacts.
Tracked(p) ==
    \/ p \in {GITIGNORE, CONFIG_NAME}
    \/ is_env_file(p) /\ ~IsEncName(p)

(***************************************************************************)
(* C3: a run of init right after a successful run of init leaves every     *)
(* plaintext file, every skeleton, the ignore-file and the config file as  *)
(* the first run left them.                                                *)
(***************************************************************************)
C3_SecondRunChangesNothing ==
    last.op = "init" /\ last.streak >= 2 =>
        \A p \in (DOMAIN before) \cup (DOMAIN fs) :
            Tracked(p) => Same(before, fs, p)

(***************************************************************************)
(* C4: repeated successful runs of init reach a state in which one further *)
(* run changes no file other than artifacts; stated for the runs the model *)
(* allows: the last of MaxRuns successful runs in a row changes none.      *)
(***************************************************************************)
C4_Converged ==
    last.op = "init" /\ last.streak = MaxRuns =>
        \A p \in (DOMAIN before) \cup (DOMAIN fs) :
            ~IsEncName(p) => Same(before, fs, p)

(***************************************************************************)
(* decrypt_file_from_enc on inputs that are no genuine artifact: too       *)
(* short, wrong magic, a changed nonce, a changed byte of the ciphertext   *)
(* or of the tag; and on genuine artifacts under the right and the wrong   *)
(* key.                                                                    *)
(***************************************************************************)
BadMagic == <<"EENV2">>

\* What the artifact path can hold, for the plaintext pt sealed under K1.
Stored(pt) ==
    { Artifact(K1, pt),
      Text(P1), Bin(1, MagicLen + NonceLen + TagLen - 1),
      Bin(2, MagicLen + NonceLen + TagLen),
      PartialOf(Artifact(K1, pt)),
      Envelope(BadMagic, 1, Seal(Blake3(K1), 1, pt)),
      Envelope(MAGIC, 2, Seal(Blake3(K1), 1, pt)),
      Envelope(MAGIC, 1, Flip(Seal(Blake3(K1), 1, pt), 1)),
      Envelope(MAGIC, 1, Flip(Seal(Blake3(K1), 1, pt), Size(pt) + TagLen)) }

InitTamper ==
    /\ \E pt \in Plaintexts : \E data \in Stored(pt) : \E old \in BOOLEAN :
          fs = (enc_output_path(ENV) :> data)
               @@ (IF old THEN (ENV :> Text(P2)) ELSE <<>>)
    /\ git = NoGit
    /\ before = fs
    /\ last = NoOp
    /\ runs = 0

NextTamper ==
    \E k \in {K1, K2, KQuote} : \E dst \in {ENV, ENV_Z} :
        DecryptFile(k, enc_output_path(ENV), dst) /\ UNCHANGED git

SpecTamper == InitTamper /\ [][NextTamper]_vars

\* data is an artifact sealed under key whose bytes are all as sealed.
Genuine(data, key) ==
    /\ data.t = "blob" /\ data.magic = MAGIC
    /\ data.ct = Seal(key, data.nonce, data.ct.pt)

(***************************************************************************)
(* C11: decrypt_file_from_enc returns an error and writes nothing when the *)
(* input is shorter than 45 bytes, does not begin with EENV1, or fails     *)
(* authentication (wrong key, or a byte of the ciphertext or tag changed); *)
(* what it writes to the destination is never anything but the plaintext   *)
(* that was sealed.                                                        *)
(***************************************************************************)
C11_FailsClosed ==
    last.op = "decrypt_file_from_enc" /\ Exists(before, last.inp.src) =>
        /\ ~Genuine(before[last.inp.src], aead_from_key_str(last.inp.k).key)
              => ~last.out.ok /\ fs = before
        /\ ~Same(before, fs, last.inp.dst)
              => /\ Genuine(before[last.inp.src], aead_from_key_str(last.inp.k).key)
                 /\ fs[last.inp.dst] = before[last.inp.src].ct.pt

\* An artifact with the last byte of its tag changed was refused under the
\* key that sealed it, and nothing was written.
C11_TamperRefused ==
    /\ last.op = "decrypt_file_from_enc"
    /\ last.inp.k = K1
    /\ before[last.inp.src].t = "blob"
    /\ before[last.inp.src].ct.flip > 1
    /\ before[last.inp.src].ct.key = Blake3(K1)
    /\ ~last.out.ok
    /\ fs = before

(***************************************************************************)
(* The config operations on every kind of config file: absent, valid,      *)
(* an object without a usable key, JSON that is no object, text that is    *)
(* no JSON, and bytes that are no text.                                    *)
(***************************************************************************)
KeyLen == 44

\* util.rs generate_key: KeyLen characters drawn from rand's Alphanumeric,
\* one token of text; seed picks the draws.
generate_key(seed) ==
    IF seed = 1 THEN <<"q7Zk2mXv9LbT4cRw8NdY1hGs6JfP3aEu5HtC0oWiVxKy">>
    ELSE <<"B4nM8sQ2wE6rT0yU1iO3pA5dF7gH9jKlZxCvBbNnMmQq">>

ObjEmptyKey == <<"{", "\"", "key", "\"", ":", "\"", "\"", "}">>
ObjNumKey ==
    <<"{", "\"", "key", "\"", ":", " ", "1", ",", " ", "\"", "other", "\"", ":",
      " ", "[", "1", ",", "\"", "x", "\"", "]", "}">>
ObjExtraKey ==
    <<"{", "\"", "other", "\"", ":", "2", ",", "\"", "key", "\"", ":", "\"",
      "k1", "\"", "}", "\n">>
JustAString == <<"\"", "k1", "\"">>

ConfigFiles ==
    { Text(t) : t \in {FormatKeyConfig(K1), ObjExtraKey, NoKeyObject, ObjEmptyKey,
                       ObjNumKey, NotAnObject, JustAString, Unparsable, <<>>} }
    \cup {Bin(1, 3)}

InitConfig ==
    /\ \E env \in BOOLEAN :
          \/ fs = (IF env THEN (ENV :> Text(P1)) ELSE <<>>)
          \/ \E c \in ConfigFiles :
                fs = (CONFIG_NAME :> c) @@ (IF env THEN (ENV :> Text(P1)) ELSE <<>>)
    /\ git = NoGit
    /\ before = fs
    /\ last = NoOp
    /\ runs = 0

EnsureConfig(seed, line, ts) ==
    Done("ensure_eenv_config",
         [gen |-> generate_key(seed), line |-> line, ts |-> ts],
         ensure_eenv_config(Start(fs, Unlimited), generate_key(seed), line, ts))

ValidateConfig ==
    Done("validate_eenv_config", [line |-> <<>>],
         [st |-> Start(fs, Unlimited), result |-> validate_eenv_config(fs)])

NextConfig ==
    \/ \E seed \in {1, 2} : \E line \in {K1, KQuote, <<" ">>, <<" ", "k2", "\n">>} :
       \E ts \in {1, 2} : EnsureConfig(seed, line, ts) /\ UNCHANGED git
    \/ ValidateConfig /\ UNCHANGED git

SpecConfig == InitConfig /\ [][NextConfig]_vars

\* What the config file of f is: "absent", "valid" (an object with a
\* non-empty string key), "nokey" (another object), "nonobject" (other
\* JSON), "unparsable" (text that is no JSON) or "unreadable" (no text).
ConfigKind(f) ==
    IF ~Exists(f, CONFIG_NAME) THEN "absent"
    ELSE IF f[CONFIG_NAME].t # "text" THEN "unreadable"
    ELSE IF ~from_str(f[CONFIG_NAME].s).ok THEN "unparsable"
    ELSE IF from_str(f[CONFIG_NAME].s).v.k # "obj" THEN "nonobject"
    ELSE IF HasKeyString(from_str(f[CONFIG_NAME].s).v) THEN "valid"
    ELSE "nokey"

\* The config file of f is an object whose key is a generated key, whole.
HoldsGeneratedKey(f) ==
    /\ ConfigKind(f) = "valid"
    /\ \E seed \in {1, 2} :
          from_str(f[CONFIG_NAME].s).v.f[<<"key">>].s = generate_key(seed)
    /\ Len(from_str(f[CONFIG_NAME].s).v.f[<<"key">>].s[1]) = KeyLen

HasBackup == Exists(fs, backup_path_with_ts(CONFIG_NAME, last.inp.ts))

(***************************************************************************)
(* C12 as stated: the status ensure_eenv_config returns is fixed by the    *)
(* config file it finds: absent gives Created and a 44-character           *)
(* alphanumeric key; an object with a non-empty string key gives Valid and *)
(* an unchanged file; another object gives FixedMissingKey; anything else  *)
(* gives RewrittenFromInvalid with a backup.                               *)
(***************************************************************************)
C12_StatusByState ==
    last.op = "ensure_eenv_config" =>
        CASE ConfigKind(before) = "absent" ->
               last.out.status = "Created" /\ HoldsGeneratedKey(fs)
          [] ConfigKind(before) = "valid" ->
               last.out.status = "Valid" /\ fs = before
          [] ConfigKind(before) = "nokey" ->
               last.out.status = "FixedMissingKey"
          [] OTHER ->
               last.out.status = "RewrittenFromInvalid" /\ HasBackup

(***************************************************************************)
(* C12, amended: as stated, except that unparsable text gives              *)
(* RewrittenFromInvalid only when the operator types a non-blank key, and  *)
(* an error with nothing written when the key is blank; and a config file  *)
(* that cannot be read as text gives an error with nothing written.        *)
(***************************************************************************)
C12_StatusByStateAndKey ==
    last.op = "ensure_eenv_config" =>
        CASE ConfigKind(before) = "absent" ->
               last.out.status = "Created" /\ HoldsGeneratedKey(fs)
          [] ConfigKind(before) = "valid" ->
               last.out.status = "Valid" /\ fs = before
          [] ConfigKind(before) = "nokey" ->
               last.out.status = "FixedMissingKey"
          [] ConfigKind(before) = "nonobject" ->
               last.out.status = "RewrittenFromInvalid" /\ HasBackup
          [] ConfigKind(before) = "unparsable" /\ Trim(last.inp.line) # <<>> ->
               last.out.status = "RewrittenFromInvalid" /\ HasBackup
          [] OTHER ->
               last.out.status = "Err" /\ fs = before

\* Unparsable text met a blank key: an error, nothing written.
C12_BlankKeyOnUnparsable ==
    /\ last.op = "ensure_eenv_config"
    /\ ConfigKind(before) = "unparsable"
    /\ Trim(last.inp.line) = <<>>
    /\ last.out.status = "Err"
    /\ fs = before

\* The JSON value of f's config file.
ConfigValue(f) == from_str(f[CONFIG_NAME].s).v

(***************************************************************************)
(* C13: when ensure_eenv_config returns FixedMissingKey, the file it       *)
(* leaves is a JSON object with every field the original object had other  *)
(* than key, each with its original value, and no further field but key,   *)
(* whose value is a non-empty string.                                      *)
(***************************************************************************)
C13_OtherFieldsKept ==
    (last.op = "ensure_eenv_config" /\ last.out.status = "FixedMissingKey") =>
        /\ ConfigKind(before) = "nokey"
        /\ ConfigKind(fs) = "valid"
        /\ DOMAIN ConfigValue(fs).f = DOMAIN ConfigValue(before).f \cup {<<"key">>}
        /\ \A n \in DOMAIN ConfigValue(before).f \ {<<"key">>} :
              ConfigValue(fs).f[n] = ConfigValue(before).f[n]

\* An object with a numeric key and another field was repaired.
C13_Repaired ==
    /\ last.op = "ensure_eenv_config"
    /\ last.out.status = "FixedMissingKey"
    /\ before[CONFIG_NAME] = Text(ObjNumKey)
    /\ <<"other">> \in DOMAIN ConfigValue(fs).f

(***************************************************************************)
(* C14: when the config file is unparsable text and the operator enters a  *)
(* non-empty key, ensure_eenv_config leaves the original bytes verbatim in *)
(* the timestamped backup and a config file that is a JSON object whose    *)
(* only field is key, holding exactly the entered key.                     *)
(***************************************************************************)
C14_EnteredKeyStored ==
    (/\ last.op = "ensure_eenv_config"
     /\ ConfigKind(before) = "unparsable"
     /\ Trim(last.inp.line) # <<>>) =>
        /\ HasBackup
        /\ fs[backup_path_with_ts(CONFIG_NAME, last.inp.ts)] = before[CONFIG_NAME]
        /\ ConfigKind(fs) = "valid"
        /\ DOMAIN ConfigValue(fs).f = {<<"key">>}
        /\ ConfigValue(fs).f[<<"key">>].s = Trim(last.inp.line)

\* C14 apart from the content of the new config file: the backup holds
\* the original bytes.
C14_BackupVerbatim ==
    (/\ last.op = "ensure_eenv_config"
     /\ ConfigKind(before) = "unparsable"
     /\ Trim(last.inp.line) # <<>>) =>
        /\ HasBackup
        /\ fs[backup_path_with_ts(CONFIG_NAME, last.inp.ts)] = before[CONFIG_NAME]

(***************************************************************************)
(* C15 as stated: validate_eenv_config returns true exactly when the       *)
(* config file exists, parses as a JSON object and has a non-empty string  *)
(* key; in every other case it returns false; it changes no file.          *)
(***************************************************************************)
C15_TrueOrFalse ==
    last.op = "validate_eenv_config" =>
        /\ last.out.result = (IF ConfigKind(before) = "valid" THEN "true" ELSE "false")
        /\ fs = before

(***************************************************************************)
(* C15, amended: validate_eenv_config returns true exactly when the config *)
(* file exists, parses as a JSON object and has a non-empty string key; it *)
(* returns an error when the file exists and cannot be read as text, and   *)
(* false in every other case; it changes no file.                          *)
(***************************************************************************)
C15_TrueFalseOrError ==
    last.op = "validate_eenv_config" =>
        /\ last.out.result =
              (CASE ConfigKind(before) = "valid" -> "true"
                 [] ConfigKind(before) = "unreadable" -> "err"
                 [] OTHER -> "false")
        /\ fs = before

\* A config file that is no text was validated: an error.
C15_UnreadableValidated ==
    /\ last.op = "validate_eenv_config"
    /\ ConfigKind(before) = "unreadable"
    /\ last.out.result = "err"

(***************************************************************************)
(* C16: an operator key that is empty or only whitespace is refused, in    *)
(* ensure_eenv_config's repair of an unparsable config and in              *)
(* bootstrap_key_and_decrypt alike: the call returns an error and no file  *)
(* has been created, written or removed.                                   *)
(***************************************************************************)
C16_BlankKeyRefused ==
    /\ (/\ last.op = "ensure_eenv_config"
        /\ ConfigKind(before) = "unparsable"
        /\ Trim(last.inp.line) = <<>>) =>
           /\ last.out.status = "Err"
           /\ last.out.st.trace = <<>>
           /\ fs = before
    /\ (/\ last.op = "bootstrap_key_and_decrypt"
        /\ Trim(last.inp.line) = <<>>) =>
           /\ ~last.out.ok
           /\ last.out.st.trace = <<>>
           /\ fs = before

\* Bootstrap met a blank key in a tree that holds an artifact.
C16_BlankBootstrap ==
    /\ last.op = "bootstrap_key_and_decrypt"
    /\ Trim(last.inp.line) = <<>>
    /\ ~last.out.ok
    /\ fs = before

\* The repair of an unparsable config met a blank key.
C16_BlankRepair ==
    /\ last.op = "ensure_eenv_config"
    /\ ConfigKind(before) = "unparsable"
    /\ Trim(last.inp.line) = <<>>
    /\ last.out.status = "Err"

(***************************************************************************)
(* Skeleton extraction and generation over plaintext files of one or two   *)
(* lines of every kind, beside a skeleton file that may already exist.     *)
(***************************************************************************)
\* The lines a plaintext file is made of: assignments (plain, padded, with
\* an empty key, with a second '='), comments (plain, indented), an empty
\* line, a line of whitespace, and a line that is none of these.
EnvLines ==
    { <<"A", "=", "1">>, <<" ", "B", " ", "=", " ", "2">>, <<"=", "1">>,
      <<"A", "=", "1", "=", "2">>, <<"#", " ", "x">>, <<" ", "#", "A", "=", "1">>,
      <<>>, <<" ">>, <<"z">> }

\* The texts of at most two lines, the last one ended by a newline or not.
EnvTexts ==
    {<<>>}
    \cup { l \o e : l \in EnvLines, e \in {<<>>, <<"\n">>} }
    \cup { a \o <<"\n">> \o b : a \in EnvLines, b \in EnvLines \ {<<>>} }

ENV_EXAMPLE == ENV \o EXAMPLE_SUFFIX

InitSkeleton ==
    /\ \E t \in EnvTexts :
          \/ fs = (ENV :> Text(t))
          \/ \E x \in {<<"A", "=", "\n">>, P1} :
                fs = (ENV :> Text(t)) @@ (ENV_EXAMPLE :> Text(x))
    /\ git = NoGit
    /\ before = fs
    /\ last = NoOp
    /\ runs = 0

\* extract_env_skeletons on files.
Extract(files) ==
    Done("extract_env_skeletons", [files |-> files],
         [st |-> Start(fs, Unlimited),
          ok |-> extract_env_skeletons(fs, files).ok,
          map |-> extract_env_skeletons(fs, files).map])

\* Extraction, then ensure_env_examples_from_skeletons on what it returned.
\* streak counts the consecutive generations from the same files.
Generate(files, rev) ==
    Record("skeletons", [files |-> files, rev |-> rev],
           WriteSkeletons(Start(fs, Unlimited), files, rev),
           IF last.op = "skeletons" /\ last.inp.files = files
           THEN last.streak + 1 ELSE 1,
           MaxCalls)

SkeletonSources == {<<ENV>>, <<ENV_EXAMPLE>>, <<ENV, ENV_EXAMPLE>>}

NextSkeleton ==
    \/ \E files \in SkeletonSources : Extract(files) /\ UNCHANGED git
    \/ \E files \in SkeletonSources : \E rev \in BOOLEAN :
          Generate(files, rev) /\ UNCHANGED git

SpecSkeleton == InitSkeleton /\ [][NextSkeleton]_vars

IsBlankLine(l) == Trim(l) = <<>>
IsCommentLine(l) == Trim(l) # <<>> /\ Head(Trim(l)) = "#"
IsAssignment(l) == ~IsBlankLine(l) /\ ~IsCommentLine(l) /\ Find(l, "=") # 0

\* KEY= for the assignment l: what precedes its first '=', trimmed.
KeyOnly(l) == Trim(SubSeq(l, 1, Find(l, "=") - 1)) \o <<"=">>

\* The plaintext files among the sources of the last call.
PlainSources ==
    { p \in SeqToSet(last.inp.files) : ~EndsWith(p, EXAMPLE_SUFFIX) }

(***************************************************************************)
(* C17 as stated: the skeleton extract_env_skeletons returns for a         *)
(* plaintext file has as many lines as the file, in the same order, where  *)
(* every KEY=VALUE line has become KEY= and every blank line and every     *)
(* comment line is the line itself.                                        *)
(***************************************************************************)
C17_BlankVerbatim ==
    (last.op = "extract_env_skeletons" /\ last.out.ok) =>
        \A p \in PlainSources :
            /\ Len(last.out.map[p]) = Len(Lines(before[p].s))
            /\ \A i \in 1..Len(last.out.map[p]) :
                  Bind(Lines(before[p].s)[i], LAMBDA l :
                      /\ IsAssignment(l) => last.out.map[p][i] = KeyOnly(l)
                      /\ IsCommentLine(l) => last.out.map[p][i] = l
                      /\ IsBlankLine(l) => last.out.map[p][i] = l)

(***************************************************************************)
(* C17, amended: as stated, except that a blank line, empty or made of     *)
(* whitespace, becomes an empty line.                                      *)
(***************************************************************************)
C17_BlankEmptied ==
    (last.op = "extract_env_skeletons" /\ last.out.ok) =>
        \A p \in PlainSources :
            /\ Len(last.out.map[p]) = Len(Lines(before[p].s))
            /\ \A i \in 1..Len(last.out.map[p]) :
                  Bind(Lines(before[p].s)[i], LAMBDA l :
                      /\ IsAssignment(l) => last.out.map[p][i] = KeyOnly(l)
                      /\ IsCommentLine(l) => last.out.map[p][i] = l
                      /\ IsBlankLine(l) => last.out.map[p][i] = <<>>)

\* A file with a padded assignment and a line of whitespace was extracted.
C17_WhitespaceLineEmptied ==
    /\ last.op = "extract_env_skeletons"
    /\ last.out.ok
    /\ before[ENV] = Text(<<" ", "B", " ", "=", " ", "2", "\n", " ">>)
    /\ last.out.map[ENV] = <<<<"B", "=">>, <<>>>>

(***************************************************************************)
(* C18: skeleton generation is idempotent.  A source whose name ends in    *)
(* .example is reported SourceIsExample and nothing is written for it;     *)
(* generating twice in a row from the same unchanged plaintext file leaves *)
(* the same bytes in its skeleton file both times; and the line transform  *)
(* applied to a line of its own output gives that line back.               *)
(***************************************************************************)
C18_SkeletonIdempotent ==
    /\ (last.op = "skeletons" /\ last.out.ok) =>
          /\ \A i \in 1..Len(last.out.results) :
                EndsWith(last.out.results[i].src, EXAMPLE_SUFFIX) =>
                    /\ last.out.results[i].action = "SourceIsExample"
                    /\ last.out.results[i].dst = last.out.results[i].src
          /\ PlainSources = {} => (last.out.st.trace = <<>> /\ fs = before)
          /\ \A e \in SeqToSet(last.out.st.trace) :
                e.op = "write" => \E p \in PlainSources :
                    e.path \in {example_path_for(p),
                                WithExtension(example_path_for(p), EXAMPLE_TMP_EXT)}
    /\ (last.op = "skeletons" /\ last.out.ok /\ last.streak >= 2) =>
          \A p \in PlainSources :
              /\ fs[p] = before[p]
              /\ fs[example_path_for(p)] = before[example_path_for(p)]
    /\ (last.op = "extract_env_skeletons" /\ last.out.ok) =>
          \A p \in DOMAIN last.out.map :
              \A i \in 1..Len(last.out.map[p]) :
                  SkeletonLine(last.out.map[p][i]) = last.out.map[p][i]

\* A second generation in a row from a plaintext file and a skeleton file.
C18_GeneratedTwice ==
    /\ last.op = "skeletons"
    /\ last.out.ok
    /\ last.streak = 2
    /\ last.inp.files = <<ENV, ENV_EXAMPLE>>
    /\ \E i \in 1..Len(last.out.results) :
          last.out.results[i].action = "SourceIsExample"
    /\ \E i \in 1..Len(last.out.results) :
          last.out.results[i].action = "Overwritten"

(***************************************************************************)
(* Ignore-file reconciliation from every kind of ignore file and every     *)
(* list of discovered files, called again and again.                       *)
(***************************************************************************)
ENV_SPACED == ENV_PREFIX \o <<" ", "x">>
ENV_SUB == <<"sub", "/">> \o ENV_Z
ENV_BACKSLASH == <<"sub", "\\">> \o ENV

IgnoreFiles ==
    { Text(t) :
        t \in { ENV \o <<"\n">>,
                CONFIG_NAME,
                ENV \o <<" ", "#", " ", "x", "\n", "\n">>,
                <<" ">> \o ENV \o <<" ", "\n">> \o CONFIG_NAME \o <<"\n">>,
                ADDED_BY_EENV \o <<"\n">> \o ENV_HASH \o <<"\n">>,
                CONFIG_NAME \o <<"\n", "\n">> } }
    \cup {BannedIgnore, Bin(1, 3)}

\* The lists of files the walk can hand over: sorted, without duplicates.
DiscoveredLists ==
    { SortPaths(d) :
        d \in (SUBSET {ENV, ENV_SUB, ENV_EXAMPLE})
              \cup { {e} : e \in {ENV_SPACED, ENV_BACKSLASH, ENV_HASH} }
              \cup { {ENV, ENV_HASH} } }

InitIgnore ==
    /\ \/ fs = <<>>
       \/ \E c \in IgnoreFiles : fs = (GITIGNORE :> c)
    /\ git = NoGit
    /\ before = fs
    /\ last = NoOp
    /\ runs = 0

\* fix_gitignore_from_found on the discovered files real; streak counts
\* the consecutive calls with the same discovered files.
Reconcile(real) ==
    Record("fix_gitignore_from_found", [real |-> real],
           fix_gitignore_from_found(Start(fs, Unlimited), real),
           IF last.op = "fix_gitignore_from_found" /\ last.inp.real = real
           THEN last.streak + 1 ELSE 1,
           MaxCalls)

NextIgnore == \E real \in DiscoveredLists : Reconcile(real) /\ UNCHANGED git

SpecIgnore == InitIgnore /\ [][NextIgnore]_vars

(***************************************************************************)
(* C19: reconciliation is idempotent: a successful call of                 *)
(* fix_gitignore_from_found that follows a call with the same discovered   *)
(* files reports changed = false and leaves the ignore file as it was.     *)
(***************************************************************************)
C19_SecondCallUnchanged ==
    (/\ last.op = "fix_gitignore_from_found"
     /\ last.streak >= 2
     /\ last.out.ok) =>
        /\ ~last.out.changed
        /\ fs = before

\* The lines of the ignore file of f.
IgnoreLines(f) == IF Exists(f, GITIGNORE) THEN Lines(f[GITIGNORE].s) ELSE <<>>

(***************************************************************************)
(* C20: after fix_gitignore_from_found succeeds, no line of the ignore     *)
(* file has a banned pattern as its core, and the pattern of every         *)
(* discovered plaintext file, and eenv.config.json, is the core of some    *)
(* line.                                                                   *)
(***************************************************************************)
C20_BannedGoneRequiredPresent ==
    (last.op = "fix_gitignore_from_found" /\ last.out.ok) =>
        /\ \A i \in 1..Len(IgnoreLines(fs)) :
              pattern_core(IgnoreLines(fs)[i]) \notin banned_env_ignores
        /\ \A pat \in RequiredPatterns(last.inp.real) :
              \E i \in 1..Len(IgnoreLines(fs)) :
                  pattern_core(IgnoreLines(fs)[i]) = pat

\* The text of the ignore file of f, empty when there is none.
IgnoreText(f) == IF Exists(f, GITIGNORE) THEN f[GITIGNORE].s ELSE <<>>

(***************************************************************************)
(* C21: fix_gitignore_from_found writes the ignore file only when the new  *)
(* text differs from the original: with changed = false nothing is written *)
(* and added and removed are empty; with added or removed non-empty        *)
(* changed = true; and with changed = true the text written differs from   *)
(* the original.                                                           *)
(***************************************************************************)
C21_WrittenOnlyWhenDifferent ==
    (last.op = "fix_gitignore_from_found" /\ last.out.ok) =>
        /\ ~last.out.changed =>
              /\ fs = before
              /\ last.out.st.trace = <<>>
              /\ last.out.added = <<>>
              /\ last.out.removed = <<>>
        /\ (last.out.added # <<>> \/ last.out.removed # <<>>) => last.out.changed
        /\ last.out.changed => IgnoreText(fs) # IgnoreText(before)

\* A second call in a row with the same discovered files found nothing to
\* change.
C21_NothingToChange ==
    /\ last.op = "fix_gitignore_from_found"
    /\ last.out.ok
    /\ last.streak = 2
    /\ ~last.out.changed
    /\ Exists(fs, GITIGNORE)
    /\ fs = before

(***************************************************************************)
(* split_env_files on lists of environment files in any order, with        *)
(* repetitions.                                                            *)
(***************************************************************************)
MaxFiles == 3

SplitPool ==
    { ENV, ENV_EXAMPLE, enc_output_path(ENV), enc_output_path(ENV_EXAMPLE),
      enc_output_path(ENV) \o EXAMPLE_SUFFIX }

SplitInputs == UNION { [1..n -> SplitPool] : n \in 0..MaxFiles }

InitSplit ==
    /\ fs = <<>>
    /\ git = NoGit
    /\ before = fs
    /\ last = NoOp
    /\ runs = 0

Split(files) ==
    Done("split_env_files", [files |-> files],
         [st |-> Start(fs, Unlimited), split |-> split_env_files(files)])

NextSplit == \E files \in SplitInputs : Split(files) /\ UNCHANGED git

SpecSplit == InitSplit /\ [][NextSplit]_vars

\* s is in strictly ascending order, hence without duplicates.
StrictlySorted(s) == \A i \in 1..Len(s) : \A j \in 1..Len(s) : i < j => SeqLess(s[i], s[j])

(***************************************************************************)
(* C22: split_env_files places every distinct input path in exactly one of *)
(* plaintext, skeleton and encrypted: a name ending .example is a          *)
(* skeleton, otherwise a name ending .enc is encrypted, otherwise it is    *)
(* plaintext.  The three outputs are pairwise disjoint, sorted, without    *)
(* duplicates, and their union is the set of input paths.                  *)
(***************************************************************************)
C22_Partition ==
    last.op = "split_env_files" =>
        /\ SeqToSet(last.out.split.examples) =
              { p \in SeqToSet(last.inp.files) : EndsWith(p, EXAMPLE_SUFFIX) }
        /\ SeqToSet(last.out.split.encs) =
              { p \in SeqToSet(last.inp.files) :
                  ~EndsWith(p, EXAMPLE_SUFFIX) /\ EndsWith(p, ENC_SUFFIX) }
        /\ SeqToSet(last.out.split.real) =
              { p \in SeqToSet(last.inp.files) :
                  ~EndsWith(p, EXAMPLE_SUFFIX) /\ ~EndsWith(p, ENC_SUFFIX) }
        /\ SeqToSet(last.out.split.real) \cap SeqToSet(last.out.split.examples) = {}
        /\ SeqToSet(last.out.split.real) \cap SeqToSet(last.out.split.encs) = {}
        /\ SeqToSet(last.out.split.examples) \cap SeqToSet(last.out.split.encs) = {}
        /\ SeqToSet(last.out.split.real) \cup SeqToSet(last.out.split.examples)
              \cup SeqToSet(last.out.split.encs) = SeqToSet(last.inp.files)
        /\ StrictlySorted(last.out.split.real)
        /\ StrictlySorted(last.out.split.examples)
        /\ StrictlySorted(last.out.split.encs)

\* An unsorted list with a repetition and a file of each class was split.
C22_MixedListSplit ==
    /\ last.op = "split_env_files"
    /\ last.inp.files = <<enc_output_path(ENV), ENV, ENV>>
    /\ last.out.split.real = <<ENV>>
    /\ last.out.split.encs = <<enc_output_path(ENV)>>

(***************************************************************************)
(* init.rs run, one step of it at a time.  last.op is the position of the  *)
(* run; last.out holds its locals: st (the filesystem and the trace of the *)
(* run so far), state (what compute_eenv_state returned), real (the        *)
(* plaintext files found after the decrypt phase), ok (FALSE once the run  *)
(* has returned an error) and hist (the steps attempted, in order).        *)
(* before is the filesystem the run started on.                            *)
(***************************************************************************)
StepInputs ==
    { [line |-> l, gen |-> <<"G1">>, ts |-> 1, nonce |-> 1, rev |-> FALSE] :
        l \in {K1, <<" ">>} }

InitSteps ==
    /\ \E env \in BOOLEAN :
       \E envz \in {<<>>, ENV_Z :> Text(P2), ENV_Z :> Bin(1, 3)} :
       \E a \in ArtifactKinds : \E b \in ArtifactKinds :
       \E config \in {<<>>, FormatKeyConfig(K1), FormatKeyConfig(<<" ">>),
                       Unparsable} :
       \E example \in BOOLEAN : \E ignore \in BOOLEAN :
          fs = (IF env THEN (ENV :> Text(P1)) ELSE <<>>) @@ envz
               @@ ArtifactAt(enc_output_path(ENV_N), a)
               @@ ArtifactAt(enc_output_path(ENV), b)
               @@ (IF example THEN (ENV_EXAMPLE :> Text(<<"A", "=", "\n">>))
                   ELSE <<>>)
               @@ Tree({}, config, ignore)
    /\ \E hooks \in {"dotgit", "inrepo"} : git = [hooks |-> hooks, staged |-> {}]
    /\ before = fs
    /\ last = NoOp
    /\ runs = 0

\* The run moves to position op with the locals out.
MoveTo(op, out) ==
    /\ fs' = out.st.fs
    /\ last' = [last EXCEPT !.op = op, !.out = out]
    /\ UNCHANGED <<before, runs>>

\* The run returns the error of the step just attempted.
ReturnErr(out) == MoveTo("failed", [out EXCEPT !.ok = FALSE])

\* init.rs:5: compute_eenv_state(repo_root)?
Begin(inp) ==
    /\ last.op \in {"none", "finished", "failed"}
    /\ runs < MaxCalls
    /\ runs' = runs + 1
    /\ before' = fs
    /\ fs' = fs
    /\ last' = [op |-> IF compute_eenv_state(fs).ok THEN "state" ELSE "failed",
                inp |-> inp,
                out |-> [st |-> Start(fs, Unlimited),
                         ok |-> compute_eenv_state(fs).ok,
                         state |-> compute_eenv_state(fs),
                         real |-> <<>>, hist |-> <<>>],
                streak |-> 0]

\* StepDecrypt with the error of bootstrap printed instead of returned.
DecryptPrintingBootstrapError ==
    /\ last.op = "state"
    /\ \/ /\ ~last.out.state.enc
          /\ MoveTo("decrypted",
                    [last.out EXCEPT
                       !.real = split_env_files(find_env_files_recursive(fs)).real])
       \/ /\ last.out.state.enc /\ last.out.state.eenvjson
          /\ MoveTo("decrypted",
                    [last.out EXCEPT
                       !.st = handle_enc_workflow(last.out.st).st,
                       !.hist = Append(@, "decrypt"),
                       !.real = split_env_files(find_env_files_recursive(
                                    handle_enc_workflow(last.out.st).st.fs)).real])
       \/ /\ last.out.state.enc /\ ~last.out.state.eenvjson
          /\ MoveTo("decrypted",
                    [last.out EXCEPT
                       !.st = bootstrap_key_and_decrypt(last.out.st, last.inp.line).st,
                       !.hist = Append(@, "bootstrap"),
                       !.real = split_env_files(find_env_files_recursive(
                                    bootstrap_key_and_decrypt(
                                        last.out.st, last.inp.line).st.fs)).real])

\* init.rs:13-29: decrypt-all, its error only printed, or bootstrap, its
\* error returned; then init.rs:31-38, the files found when state.env.
StepDecrypt ==
    /\ last.op = "state"
    /\ \/ /\ ~last.out.state.enc
          /\ MoveTo("decrypted",
                    [last.out EXCEPT
                       !.real = split_env_files(find_env_files_recursive(fs)).real])
       \/ /\ last.out.state.enc /\ last.out.state.eenvjson
          /\ MoveTo("decrypted",
                    [last.out EXCEPT
                       !.st = handle_enc_workflow(last.out.st).st,
                       !.hist = Append(@, "decrypt"),
                       !.real = split_env_files(find_env_files_recursive(
                                    handle_enc_workflow(last.out.st).st.fs)).real])
       \/ /\ last.out.state.enc /\ ~last.out.state.eenvjson
          /\ bootstrap_key_and_decrypt(last.out.st, last.inp.line).ok
          /\ MoveTo("decrypted",
                    [last.out EXCEPT
                       !.st = bootstrap_key_and_decrypt(last.out.st, last.inp.line).st,
                       !.hist = Append(@, "bootstrap"),
                       !.real = split_env_files(find_env_files_recursive(
                                    bootstrap_key_and_decrypt(
                                        last.out.st, last.inp.line).st.fs)).real])
       \/ /\ last.out.state.enc /\ ~last.out.state.eenvjson
          /\ ~bootstrap_key_and_decrypt(last.out.st, last.inp.line).ok
          /\ ReturnErr([last.out EXCEPT
                          !.st = bootstrap_key_and_decrypt(
                                     last.out.st, last.inp.line).st,
                          !.hist = Append(@, "bootstrap")])

\* init.rs:53-70: skeletons when none existed; an extraction error is
\* returned.
StepSkeletons ==
    /\ last.op = "decrypted"
    /\ last.out.state.env
    /\ \/ /\ last.out.state.example \/ last.out.real = <<>>
          /\ MoveTo("skeletons", last.out)
       \/ /\ ~last.out.state.example /\ last.out.real # <<>>
          /\ WriteSkeletons(last.out.st, last.out.real, last.inp.rev).ok
          /\ MoveTo("skeletons",
                    [last.out EXCEPT
                       !.st = WriteSkeletons(last.out.st, last.out.real,
                                             last.inp.rev).st,
                       !.hist = Append(@, "skeletons")])
       \/ /\ ~last.out.state.example /\ last.out.real # <<>>
          /\ ~WriteSkeletons(last.out.st, last.out.real, last.inp.rev).ok
          /\ ReturnErr([last.out EXCEPT !.hist = Append(@, "skeletons")])

\* init.rs:72-86: the ignore file reconciled, an error only printed.
StepReconcile ==
    /\ last.op = "skeletons"
    /\ MoveTo("reconciled",
              [last.out EXCEPT
                 !.st = fix_gitignore_from_found(last.out.st, last.out.real).st,
                 !.hist = Append(@, "reconcile")])

\* init.rs:88-101: the config ensured, an error only printed.
StepEnsure ==
    /\ last.op = "reconciled"
    /\ MoveTo("ensured",
              [last.out EXCEPT
                 !.st = ensure_eenv_config(last.out.st, last.inp.gen,
                                           last.inp.line, last.inp.ts).st,
                 !.hist = Append(@, "ensure")])

\* init.rs:103: encrypt_envs_to_enc(repo_root, &real)?
StepEncrypt ==
    /\ last.op = "ensured"
    /\ \/ /\ encrypt_envs_to_enc(last.out.st, last.out.real, last.inp.nonce).ok
          /\ MoveTo("encrypted",
                    [last.out EXCEPT
                       !.st = encrypt_envs_to_enc(last.out.st, last.out.real,
                                                  last.inp.nonce).st,
                       !.hist = Append(@, "encrypt")])
       \/ /\ ~encrypt_envs_to_enc(last.out.st, last.out.real, last.inp.nonce).ok
          /\ ReturnErr([last.out EXCEPT
                          !.st = encrypt_envs_to_enc(last.out.st, last.out.real,
                                                     last.inp.nonce).st,
                          !.hist = Append(@, "encrypt")])

\* init.rs:110-111: the hooks directory ignored, then Ok(()).
StepHooks ==
    /\ \/ last.op = "encrypted"
       \/ last.op = "decrypted" /\ ~last.out.state.env
    /\ MoveTo("finished",
              [last.out EXCEPT
                 !.st = ensure_gitignore_ignores_hooks(last.out.st, git.hooks)])

NextSteps ==
    \/ \E inp \in StepInputs : Begin(inp) /\ UNCHANGED git
    \/ StepDecrypt /\ UNCHANGED git
    \/ StepSkeletons /\ UNCHANGED git
    \/ StepReconcile /\ UNCHANGED git
    \/ StepEnsure /\ UNCHANGED git
    \/ StepEncrypt /\ UNCHANGED git
    \/ StepHooks /\ UNCHANGED git

SpecSteps == InitSteps /\ [][NextSteps]_vars

\* The run has returned.
Returned == last.op \in {"finished", "failed"}

\* The steps agree with run as a whole: a run that has returned left what
\* run leaves, and returned what run returns.
StepsAgreeWithRun ==
    Returned =>
        /\ fs = run(Start(before, Unlimited), git.hooks, last.inp).st.fs
        /\ last.out.ok = run(Start(before, Unlimited), git.hooks, last.inp).ok

\* The place of a step in the order init is to take them in.
StepOrder(step) ==
    CASE step \in {"decrypt", "bootstrap"} -> 1
      [] step = "skeletons" -> 2
      [] step = "reconcile" -> 3
      [] step = "ensure" -> 4
      [] step = "encrypt" -> 5

Attempted(step) == \E i \in 1..Len(last.out.hist) : last.out.hist[i] = step

\* The run returned the error of compute_eenv_state or of bootstrap.
StoppedBeforePlaintext ==
    /\ last.op = "failed"
    /\ \/ ~last.out.state.ok
       \/ last.out.hist # <<>> /\ last.out.hist[Len(last.out.hist)] = "bootstrap"

\* A skeleton file existed when the run started.
HadSkeleton == \E p \in DOMAIN before : is_env_file(p) /\ IsExampleName(p)

(***************************************************************************)
(* C23: in a run of init that found plaintext, the steps are taken in the  *)
(* order skeletons, reconciliation, config ensure, encryption; skeletons   *)
(* are generated only when no skeleton file existed when the state was     *)
(* computed; reconciliation and config ensure have been attempted in every *)
(* such run that has returned (unless it returned the error of bootstrap); *)
(* and no artifact is written before config ensure has been attempted.     *)
(***************************************************************************)
C23_StepsInOrder ==
    (last.op # "none" /\ last.out.state.ok /\ last.out.state.env) =>
        /\ \A i \in 1..Len(last.out.hist) : \A j \in 1..Len(last.out.hist) :
              i < j => StepOrder(last.out.hist[i]) < StepOrder(last.out.hist[j])
        /\ Attempted("skeletons") => ~HadSkeleton
        /\ (Returned /\ ~StoppedBeforePlaintext) =>
              Attempted("reconcile") /\ Attempted("ensure")
        /\ \A p \in DOMAIN fs :
              (IsEncName(p) /\ ~Same(before, fs, p)) => Attempted("ensure")

\* C23 apart from "attempted in every such run": the order, the condition
\* on skeletons, and no artifact before config ensure.
C23_OrderOnly ==
    (last.op # "none" /\ last.out.state.ok /\ last.out.state.env) =>
        /\ \A i \in 1..Len(last.out.hist) : \A j \in 1..Len(last.out.hist) :
              i < j => StepOrder(last.out.hist[i]) < StepOrder(last.out.hist[j])
        /\ Attempted("skeletons") => ~HadSkeleton
        /\ \A p \in DOMAIN fs :
              (IsEncName(p) /\ ~Same(before, fs, p)) => Attempted("ensure")

\* The events of the last call's trace that pre_commit itself produced:
\* those after the hook installation.
OwnEvents == (last.out.mark + 1)..Len(last.out.st.trace)

\* The path written at i is handed to git add later in the trace.
StagedAfter(i) ==
    \E j \in OwnEvents :
        /\ j > i
        /\ last.out.st.trace[j].op = "add"
        /\ last.out.st.trace[j].path = last.out.st.trace[i].path

\* The config file or a backup of it.
IsConfigPath(p) ==
    StartsWith(p, SubSeq(CONFIG_NAME, 1, Len(CONFIG_NAME) - 1))

Decryptable ==
    { p \in DOMAIN before :
        /\ is_env_file(p) /\ IsEncName(p)
        /\ ~Exists(before, dec_output_path(p))
        /\ Genuine(before[p], read_eenv_key(before).key) }

\* The artifacts the run found that the config's key does not open.
Undecryptable ==
    { p \in DOMAIN before :
        /\ is_env_file(p) /\ IsEncName(p)
        /\ ~Genuine(before[p], read_eenv_key(before).key) }

(***************************************************************************)
(* C25: in a run of init with artifacts and a valid config, a failure to   *)
(* decrypt never makes init fail: the decrypt step is never the step whose *)
(* error the run returns, every artifact the key opens is decrypted        *)
(* whatever happens to the others, and when plaintext was found the run    *)
(* goes on to the plaintext steps: it reaches reconciliation unless        *)
(* skeleton extraction stopped it.                                         *)
(***************************************************************************)
C25_DecryptFailureNotFatal ==
    (/\ last.op # "none" /\ last.out.state.ok
     /\ last.out.state.enc /\ last.out.state.eenvjson
     /\ Attempted("decrypt")) =>
        /\ last.op = "failed" =>
              last.out.hist[Len(last.out.hist)] # "decrypt"
        /\ \A p \in Decryptable :
              /\ Exists(fs, dec_output_path(p))
              /\ fs[dec_output_path(p)] = before[p].ct.pt
        /\ (Returned /\ last.out.state.env /\ ~Attempted("reconcile")) =>
              last.out.hist[Len(last.out.hist)] = "skeletons"

\* A run with a valid config met an artifact it could not decrypt, sorted
\* before one it could, and went on to finish the plaintext steps.
C25_FailedArtifactPassed ==
    /\ last.op = "finished" /\ last.out.ok
    /\ last.out.state.enc /\ last.out.state.eenvjson /\ last.out.state.env
    /\ enc_output_path(ENV) \in Undecryptable
    /\ enc_output_path(ENV_N) \in Decryptable
    /\ Exists(fs, ENV_N)
    /\ Attempted("encrypt")

(***************************************************************************)
(* The paths derived from plaintext files: names with no extension, one,   *)
(* or several, among them enc and example in the middle of a name, at the  *)
(* root and in a directory.                                                *)
(***************************************************************************)
NameParts == {<<>>, <<".", "z">>, ENC_SUFFIX, EXAMPLE_SUFFIX}

\* The plaintext paths: a name that ends in neither suffix.
PlainPool ==
    { n \in { d \o ENV_PREFIX \o a \o b \o c :
                d \in {<<>>, <<"sub", "/">>},
                a \in NameParts, b \in NameParts,
                c \in {<<>>, <<".", "z">>, <<"x">>} } :
        ~EndsWith(n, EXAMPLE_SUFFIX) /\ ~EndsWith(n, ENC_SUFFIX) }

InitPaths ==
    /\ \E p \in PlainPool : \E q \in PlainPool :
          fs = (p :> Text(P1)) @@ (q :> Text(P2))
    /\ git = NoGit
    /\ before = fs
    /\ last = NoOp
    /\ runs = 0

\* For each plaintext file of the tree: its artifact path, what
\* dec_output_path makes of that, and its skeleton path; and the split of
\* all the derived paths.
Derive ==
    Done("derive", [real |-> SortPaths(DOMAIN fs)],
         [st |-> Start(fs, Unlimited),
          paths |-> [p \in DOMAIN fs |->
                      [enc |-> enc_output_path(p),
                       dec |-> dec_output_path(enc_output_path(p)),
                       example |-> example_path_for(p)]],
          split |-> split_env_files(
                        SortPaths({ enc_output_path(p) : p \in DOMAIN fs }
                                  \cup { example_path_for(p) : p \in DOMAIN fs }))])

NextPaths == Derive /\ UNCHANGED git

SpecPaths == InitPaths /\ [][NextPaths]_vars

(***************************************************************************)
(* C26: for every plaintext path p the artifact path is p with .enc        *)
(* appended to its name and the skeleton path is p with .example appended; *)
(* dec_output_path gives p back from the artifact path; distinct plaintext *)
(* paths have distinct artifact paths; and split_env_files puts every      *)
(* artifact path in encrypted and every skeleton path in skeleton, none in *)
(* plaintext.                                                              *)
(***************************************************************************)
C26_DerivedPaths ==
    last.op = "derive" =>
        /\ \A p \in DOMAIN last.out.paths :
              /\ last.out.paths[p].enc = p \o ENC_SUFFIX
              /\ last.out.paths[p].example = p \o EXAMPLE_SUFFIX
              /\ last.out.paths[p].dec = p
        /\ \A p \in DOMAIN last.out.paths : \A q \in DOMAIN last.out.paths :
              p # q => last.out.paths[p].enc # last.out.paths[q].enc
        /\ SeqToSet(last.out.split.encs) =
              { last.out.paths[p].enc : p \in DOMAIN last.out.paths }
        /\ SeqToSet(last.out.split.examples) =
              { last.out.paths[p].example : p \in DOMAIN last.out.paths }
        /\ last.out.split.real = <<>>

\* The paths of .env.z and .env.enc.z in a directory were derived.
C26_TwoNamesDerived ==
    /\ last.op = "derive"
    /\ DOMAIN last.out.paths =
          { <<"sub", "/">> \o ENV_Z, <<"sub", "/">> \o ENV \o ENC_SUFFIX \o <<".", "z">> }
    /\ \A p \in DOMAIN last.out.paths : last.out.paths[p].dec = p

\* The plaintext environment files of f.
PlaintextFiles(f) == { p \in DOMAIN f : is_env_file(p) /\ IsPlainName(p) }

\* Some line of f's ignore file has the pattern of p as its core.
IgnoredByCore(f, p) ==
    \E i \in 1..Len(IgnoreLines(f)) :
        pattern_core(IgnoreLines(f)[i]) = to_gitignore_rel_pattern(p)

(***************************************************************************)
(* C27: when init has returned success, every plaintext environment file   *)
(* then on disk, those the run decrypted included, has its pattern as the  *)
(* core of some line of the ignore file.                                   *)
(***************************************************************************)
C27_PlaintextIgnored ==
    (last.op = "finished" /\ last.out.ok) =>
        \A p \in PlaintextFiles(fs) : IgnoredByCore(fs, p)

\* C27 for the plaintext files that were there when the run started.
C27_InitialPlaintextIgnored ==
    (last.op = "finished" /\ last.out.ok) =>
        \A p \in PlaintextFiles(fs) \cap PlaintextFiles(before) : IgnoredByCore(fs, p)

\* The run took the bootstrap branch and bootstrap failed.
BootstrapFailed ==
    /\ last.out.state.ok /\ last.out.state.enc /\ ~last.out.state.eenvjson
    /\ ~bootstrap_key_and_decrypt(Start(before, Unlimited), last.inp.line).ok

\* What the plaintext steps of init write: skeletons, the ignore file, the
\* config file and artifacts.
StepProduct(p) ==
    \/ p = GITIGNORE
    \/ IsConfigPath(p)
    \/ is_env_file(p) /\ ~IsPlainName(p)

\* path holds in f what it holds in g, or is in neither.
SameAt(f, g, path) ==
    IF path \in DOMAIN f THEN path \in DOMAIN g /\ f[path] = g[path]
    ELSE path \notin DOMAIN g

(***************************************************************************)
(* C28: a run of init that took the bootstrap branch and whose bootstrap   *)
(* failed has returned that error after attempting bootstrap only: no      *)
(* skeleton, ignore file, config file or artifact differs from what was    *)
(* there when the run started, plaintext or not.                           *)
(***************************************************************************)
C28_BootstrapFailureStops ==
    (Returned /\ BootstrapFailed) =>
        /\ last.op = "failed"
        /\ ~last.out.ok
        /\ last.out.hist = <<"bootstrap">>
        /\ \A p \in DOMAIN fs \cup DOMAIN before :
               StepProduct(p) => SameAt(fs, before, p)

\* A failed bootstrap in a tree that holds plaintext and no skeleton.
C28_FailedWithPlaintext ==
    /\ Returned /\ BootstrapFailed
    /\ PlaintextFiles(before) # {}
    /\ ~HadSkeleton
    /\ last.inp.line = K1

(***************************************************************************)
(* C29: whenever the state init computed says the config is valid          *)
(* (validate_eenv_config returned true), read_eenv_key derives a key from  *)
(* the same file.                                                          *)
(***************************************************************************)
C29_ValidConfigYieldsKey ==
    (last.op # "none" /\ last.out.state.ok /\ last.out.state.eenvjson) =>
        read_eenv_key(before).ok

\* C29 for the config files whose key is more than white space.
C29_NonBlankKeyYieldsKey ==
    (/\ last.op # "none" /\ last.out.state.ok /\ last.out.state.eenvjson
     /\ Trim(from_str(before[CONFIG_NAME].s).v.f[<<"key">>].s) # <<>>) =>
        read_eenv_key(before).ok

\* What ensure_eenv_config can draw from outside on a later call.
EnsureInputs ==
    { [gen |-> generate_key(seed), line |-> line, ts |-> ts] :
        seed \in {1, 2}, line \in {K1, KQuote, <<" ">>}, ts \in {1, 2} }

\* ensure_eenv_config has just returned a success status.
EnsureSucceeded ==
    last.op = "ensure_eenv_config" /\ last.out.status # "Err"

(***************************************************************************)
(* C30: after ensure_eenv_config has returned a success status, whatever   *)
(* the config file held and whatever non-empty key was entered,            *)
(* validate_eenv_config returns true, and a second ensure_eenv_config      *)
(* returns Valid and changes nothing.                                      *)
(***************************************************************************)
C30_EnsureThenValid ==
    EnsureSucceeded =>
        /\ validate_eenv_config(fs) = "true"
        /\ \A i \in EnsureInputs :
               /\ ensure_eenv_config(Start(fs, Unlimited), i.gen, i.line, i.ts).status
                      = "Valid"
               /\ ensure_eenv_config(Start(fs, Unlimited), i.gen, i.line, i.ts).st.fs
                      = fs

\* C30 when the key that was stored holds no quote.
C30_EnsureThenValidPlainKey ==
    (EnsureSucceeded
     /\ (last.out.status = "RewrittenFromInvalid" => last.inp.line # KQuote)) =>
        /\ validate_eenv_config(fs) = "true"
        /\ \A i \in EnsureInputs :
               /\ ensure_eenv_config(Start(fs, Unlimited), i.gen, i.line, i.ts).status
                      = "Valid"
               /\ ensure_eenv_config(Start(fs, Unlimited), i.gen, i.line, i.ts).st.fs
                      = fs

\* The temporary file the writer op uses for path.
TempOf(op, path) ==
    IF op = "write_lines_atomic" THEN WithExtension(path, EXAMPLE_TMP_EXT)
    ELSE WithExtension(path, TMP_EXT)

\* A writer was killed between creating its temporary file and renaming it.
CrashLeftTemp ==
    /\ IsWriter(last.op)
    /\ last.out.st.crashed
    /\ Exists(fs, TempOf(last.op, last.inp.path))
    /\ ~Exists(before, TempOf(last.op, last.inp.path))

\* path is found as an environment file in f.
Discovered(f, path) ==
    \E i \in 1..Len(find_env_files_recursive(f)) :
        find_env_files_recursive(f)[i] = path

(***************************************************************************)
(* C31: the temporary file left by a crash between its creation and the    *)
(* rename, in an atomic write of a plaintext file, a skeleton, the config  *)
(* or the ignore file, is not discovered as an environment file.           *)
(***************************************************************************)
C31_TempNotDiscovered ==
    CrashLeftTemp => ~Discovered(fs, TempOf(last.op, last.inp.path))

\* C31 for the writes of the config file and of the ignore file.
C31_ConfigAndIgnoreTempNotDiscovered ==
    (CrashLeftTemp /\ last.inp.path \in {CONFIG_NAME, GITIGNORE}) =>
        ~Discovered(fs, TempOf(last.op, last.inp.path))

\* The artifact next to path opens, under the key of f's config file, to
\* what path holds in f.
SealedCurrent(f, path) ==
    /\ Exists(f, path)
    /\ Exists(f, enc_output_path(path))
    /\ read_eenv_key(f).ok
    /\ decrypt_file_from_enc(Start(f, Unlimited), read_eenv_key(f).key,
                             enc_output_path(path), path).ok
    /\ decrypt_file_from_enc(Start(f, Unlimited), read_eenv_key(f).key,
                             enc_output_path(path), path).st.fs[path] = f[path]

(***************************************************************************)
(* C32: when init has returned success in a run whose state had plaintext, *)
(* every plaintext file the run discovered has next to it an artifact      *)
(* <name>.enc that decrypts, under the key the config file holds at the    *)
(* end of the run, to what the plaintext file then holds.                  *)
(***************************************************************************)
C32_PlaintextSealed ==
    (last.op = "finished" /\ last.out.ok /\ last.out.state.env) =>
        \A i \in 1..Len(last.out.real) : SealedCurrent(fs, last.out.real[i])

\* A successful run that found two plaintext files, one of them without an
\* artifact this key opens, and had to create the config file.
C32_TwoSealedUnderNewKey ==
    /\ last.op = "finished" /\ last.out.ok /\ last.out.state.env
    /\ Len(last.out.real) = 2
    /\ ~Exists(before, CONFIG_NAME)
    /\ \E i \in 1..2 : ~Exists(before, enc_output_path(last.out.real[i]))

(***************************************************************************)
(* The four tests for a plaintext environment file, each applied to every  *)
(* environment file of a tree: split_env_files, the offender test of       *)
(* pre_commit, the filter of encrypt_envs_to_enc and the required set of   *)
(* fix_gitignore_from_found.                                               *)
(***************************************************************************)
\* Names that start with .env, at the root and in a directory, with the
\* two suffixes at the end, inside and doubled.
ClassPool ==
    { d \o ENV_PREFIX \o a \o b \o c :
        d \in {<<>>, <<"sub", "/">>},
        a \in NameParts, b \in NameParts,
        c \in {<<>>, <<".", "z">>, <<"x">>} }

InitClassify ==
    /\ \E p \in ClassPool : \E q \in ClassPool :
          fs = (p :> Text(P1)) @@ (q :> Text(P2))
               @@ (CONFIG_NAME :> Text(FormatKeyConfig(K1)))
    /\ git = NoGit
    /\ before = fs
    /\ last = NoOp
    /\ runs = 0

\* What each of the four does with the environment files of the tree; the
\* tree itself is left as it was.
Classify ==
    Bind(find_env_files_recursive(fs), LAMBDA files :
        Done("classify", [files |-> files],
             [st |-> Start(fs, Unlimited),
              real |-> split_env_files(files).real,
              refused |-> { n \in SeqToSet(files) :
                              ~pre_commit(Start(fs, Unlimited), FALSE, <<n>>, TRUE,
                                          [line |-> K1, gen |-> <<"G1">>, ts |-> 1,
                                           nonce |-> 1, rev |-> FALSE]).ok },
              produced |-> encrypt_envs_to_enc(Start(fs, Unlimited), files, 1).produced,
              ignored |-> Lines(fix_gitignore_from_found(
                                    Start(fs, Unlimited), files).st.fs[GITIGNORE].s)]))

NextClassify == Classify /\ UNCHANGED git

SpecClassify == InitClassify /\ [][NextClassify]_vars

(***************************************************************************)
(* C33: on every file whose name begins with .env, the plaintext class of  *)
(* split_env_files, the offender test of pre_commit, the filter of         *)
(* encrypt_envs_to_enc and the required set of fix_gitignore_from_found    *)
(* select the same names: those ending with neither .example nor .enc.     *)
(***************************************************************************)
C33_FourTestsAgree ==
    last.op = "classify" =>
        \A i \in 1..Len(last.inp.files) :
            Bind(last.inp.files[i], LAMBDA n :
            Bind(~EndsWith(file_name(n), EXAMPLE_SUFFIX)
                 /\ ~EndsWith(file_name(n), ENC_SUFFIX), LAMBDA plain :
                /\ plain <=> (n \in SeqToSet(last.out.real))
                /\ plain <=> (n \in last.out.refused)
                /\ plain <=> (enc_output_path(n) \in SeqToSet(last.out.produced))
                /\ plain <=> (to_gitignore_rel_pattern(n)
                                 \in SeqToSet(last.out.ignored))))

\* The four were applied to a tree holding a plaintext name with a suffix
\* inside it, in a directory, and a name carrying both suffixes.
C33_MixedNamesClassified ==
    /\ last.op = "classify"
    /\ <<"sub", "/">> \o ENV_PREFIX \o ENC_SUFFIX \o <<"x">> \in SeqToSet(last.out.real)
    /\ ENV_PREFIX \o EXAMPLE_SUFFIX \o ENC_SUFFIX \in SeqToSet(last.inp.files)

\* The lines extract_env_skeletons computed for the plaintext source p of
\* the last generation.
ExtractedLines(p) == extract_env_skeletons(before, <<p>>).map[p]

\* Skeletons have just been generated from sources that could be read.
SkeletonsWritten == last.op = "skeletons" /\ last.out.ok

(***************************************************************************)
(* C34: the skeleton file ensure_env_examples_from_skeletons wrote, read   *)
(* back line by line, is the sequence of lines extract_env_skeletons       *)
(* computed for its source, for every source, an empty file and a file     *)
(* ending in blank lines included.                                         *)
(***************************************************************************)
C34_ReadBackSameLines ==
    SkeletonsWritten =>
        \A p \in PlainSources :
            Lines(fs[example_path_for(p)].s) = ExtractedLines(p)

\* C34 for the sources whose skeleton has a last line that is not empty.
C34_ReadBackWhenLastLineNotEmpty ==
    SkeletonsWritten =>
        \A p \in PlainSources :
            (ExtractedLines(p) # <<>>
             /\ ExtractedLines(p)[Len(ExtractedLines(p))] # <<>>) =>
                Lines(fs[example_path_for(p)].s) = ExtractedLines(p)

(***************************************************************************)
(* C35: pre_commit called without write mode writes, creates and deletes   *)
(* no file and stages no path, whatever environment files, config file and *)
(* ignore file the repository holds.                                       *)
(***************************************************************************)
C35_CheckOnlyTouchesNothing ==
    (last.op = "pre_commit" /\ ~last.inp.write) =>
        /\ OwnEvents = {}
        /\ fs = last.out.entry
        /\ git.staged = last.inp.staged

\* A check without write mode passed in a tree where write mode would have
\* had work: plaintext on disk, no skeleton, no artifact, no config file.
C35_CheckedWithWorkLeft ==
    /\ last.op = "pre_commit" /\ ~last.inp.write /\ last.out.ok
    /\ PlaintextFiles(fs) # {}
    /\ ~Exists(fs, CONFIG_NAME)
    /\ ~Exists(fs, example_path_for(ENV))
    /\ ~Exists(fs, enc_output_path(ENV))

\* The lines of the ignore file before the call whose core is not banned.
KeptLines == SelectSeq(IgnoreLines(before), NotBannedLine)

\* s begins with pre.
IsPrefix(pre, s) == Len(pre) <= Len(s) /\ SubSeq(s, 1, Len(pre)) = pre

\* fix_gitignore_from_found has just returned success.
Reconciled == last.op = "fix_gitignore_from_found" /\ last.out.ok

(***************************************************************************)
(* C36: after fix_gitignore_from_found the ignore file begins with every   *)
(* line it had whose core is not banned, unchanged and in the original     *)
(* order; what is new comes after them.                                    *)
(***************************************************************************)
C36_KeptLinesArePrefix ==
    Reconciled => IsPrefix(KeptLines, IgnoreLines(fs))

\* C36 but for one empty line at the end: the kept lines are a prefix of
\* the result, or the last kept line is empty and the result is the kept
\* lines without it.
C36_KeptLinesButFinalBlank ==
    Reconciled =>
        \/ IsPrefix(KeptLines, IgnoreLines(fs))
        \/ /\ KeptLines # <<>>
           /\ KeptLines[Len(KeptLines)] = <<>>
           /\ IgnoreLines(fs) = SubSeq(KeptLines, 1, Len(KeptLines) - 1)

\* A reconciliation that removed a banned line, kept another line and
\* added a block.
C36_KeptRemovedAndAdded ==
    /\ Reconciled
    /\ KeptLines # <<>>
    /\ last.out.removed # <<>>
    /\ last.out.added # <<>>

(***************************************************************************)
(* hooks.rs: uninstall_git_hook, and the hook commands on a repository     *)
(* whose two hook files are absent, someone else's, managed, or no text.   *)
(***************************************************************************)
HookPaths(hooks) ==
    << HooksDir(hooks) \o <<"pre-commit">>,
       HooksDir(hooks) \o <<"pre-commit", ".", "ps1">> >>

\* hooks.rs:116-128: one hook file of the loop of uninstall_git_hook.
UninstallOne(st, path, force) ==
    Bind(read_to_string(st.fs, path), LAMBDA existing :
        IF ~Exists(st.fs, path) THEN st
        ELSE IF force THEN RemoveFile(st, path)
        ELSE IF existing.ok
                /\ \E i \in 1..Len(existing.s) : existing.s[i] = HOOK_MARKER
             THEN RemoveFile(st, path)
        ELSE st)

uninstall_git_hook(st, hooks, force) ==
    IF hooks = "nogit" THEN [st |-> st, ok |-> FALSE]
    ELSE [st |-> UninstallOne(UninstallOne(st, HookPaths(hooks)[1], force),
                              HookPaths(hooks)[2], force),
          ok |-> TRUE]

ForeignHook == Text(<<"#!/bin/sh", "\n", "make", "\n">>)
StaleHook == Text(<<HOOK_MARKER, "\n", "old", "\n">>)

\* What a hook file can be: absent, someone else's script, someone else's
\* file that is no UTF-8 text, the hook as eenv would write it, or an older
\* hook of eenv.
HookFiles(desired) == {ForeignHook, Bin(1, 3), Text(desired), StaleHook}

InitHooks ==
    /\ \E hooks \in {"dotgit", "inrepo"} :
         /\ git = [hooks |-> hooks, staged |-> {}]
         /\ \E sh \in {<<>>} \cup { HookPaths(hooks)[1] :> c : c \in HookFiles(sh_content) } :
            \E ps1 \in {<<>>} \cup { HookPaths(hooks)[2] :> c : c \in HookFiles(ps1_content) } :
            \E ignore \in BOOLEAN :
               fs = sh @@ ps1 @@ Tree({}, <<>>, ignore)
    /\ before = fs
    /\ last = NoOp
    /\ runs = 0

InstallHook(force, ts) ==
    Done("install_git_hook", [force |-> force, ts |-> ts],
         install_git_hook(Start(fs, Unlimited), git.hooks, force, ts))

UninstallHook(force) ==
    Done("uninstall_git_hook", [force |-> force],
         uninstall_git_hook(Start(fs, Unlimited), git.hooks, force))

NextHooks ==
    \/ \E force \in BOOLEAN : InstallHook(force, 1) /\ UNCHANGED git
    \/ \E force \in BOOLEAN : UninstallHook(force) /\ UNCHANGED git

SpecHooks == InitHooks /\ [][NextHooks]_vars

\* The file holds text with the line that marks a hook as eenv's.
HasMarker(c) == c.t = "text" /\ \E i \in 1..Len(c.s) : c.s[i] = HOOK_MARKER

\* The hook files that were there before the call and were not eenv's.
ForeignHooks ==
    { p \in SeqToSet(HookPaths(git.hooks)) :
        Exists(before, p) /\ ~HasMarker(before[p]) }

\* The last call wrote or removed path.
Touched(path) ==
    \E i \in 1..Len(last.out.st.trace) :
        /\ last.out.st.trace[i].op \in {"write", "remove"}
        /\ last.out.st.trace[i].path = path

\* path is in f and holds c.
Holds(f, path, c) == Exists(f, path) /\ f[path] = c

HookCallWithoutForce ==
    last.op \in {"install_git_hook", "uninstall_git_hook"} /\ ~last.inp.force

(***************************************************************************)
(* C37: without force, install_git_hook and uninstall_git_hook leave every *)
(* existing hook file that does not hold the marker as it was, neither     *)
(* written nor removed; and install_git_hook writes no hook file that is   *)
(* managed and already holds the desired content.                          *)
(***************************************************************************)
C37_ForeignHookUntouched ==
    HookCallWithoutForce =>
        /\ \A p \in ForeignHooks :
               Exists(fs, p) /\ fs[p] = before[p] /\ ~Touched(p)
        /\ last.op = "install_git_hook" =>
               /\ Holds(before, HookPaths(git.hooks)[1], Text(sh_content)) =>
                      ~Touched(HookPaths(git.hooks)[1])
               /\ Holds(before, HookPaths(git.hooks)[2], Text(ps1_content)) =>
                      ~Touched(HookPaths(git.hooks)[2])

\* C37 for the hook files that can be read as text.
C37_ForeignTextHookUntouched ==
    HookCallWithoutForce =>
        /\ \A p \in ForeignHooks :
               before[p].t = "text" =>
                   Exists(fs, p) /\ fs[p] = before[p] /\ ~Touched(p)
        /\ last.op = "install_git_hook" =>
               /\ Holds(before, HookPaths(git.hooks)[1], Text(sh_content)) =>
                      ~Touched(HookPaths(git.hooks)[1])
               /\ Holds(before, HookPaths(git.hooks)[2], Text(ps1_content)) =>
                      ~Touched(HookPaths(git.hooks)[2])

====
